---- MODULE Spec2Model ----
(***************************************************************************)
(* Model of the district geo-spatial map generator (src/app.py and its    *)
(* successor src/app_v1.py): the bin classifier assign_bin, the 3x3       *)
(* reference x achievement matrix, the legend builder and the metric      *)
(* catalog, as used by generate_geo_spatial_map.                          *)
(*                                                                         *)
(* Numbers.  The program computes with float64.  A finite value is the    *)
(* record [kind |-> "num", neg, e, hi, lo], the binary64 number           *)
(* (-1)^neg * (hi * 2^27 + lo) * 2^e whose significand has 53 bits (or is *)
(* zero); division rounds to nearest, ties to even, as the hardware does. *)
(* Num(n) is the float nearest to n / 100, the value Python reads for the *)
(* literal ( 5 Cr is Num(500), a market share of 0.10 is Num(10) ).  The  *)
(* kinds "-inf" and "inf" are -np.inf and np.inf, "NaN" is a float NaN    *)
(* and "None" is Python's None.                                           *)
(*                                                                         *)
(* Strings.  The range descriptions of the program hold the characters    *)
(* en dash, >= sign and <= sign; they are written here as "-", ">=" and   *)
(* "<=" because a TLA+ string is ASCII.  The multiplication sign of the   *)
(* title is written "x".                                                  *)
(***************************************************************************)
EXTENDS Integers, Sequences, FiniteSets, TLC

VARIABLES
    script,                 \* which copy of the script runs: "app" or "app_v1"
    pc,                     \* position inside generate_geo_spatial_map / the harness
    reference_metric_ui,    \* the selected reference metric
    achievement_metric_ui,  \* the selected achievement metric
    row,                    \* one row of merged: column identifier -> value
    ref_bin,                \* merged["ref_bin"] of the row
    ach_bin,                \* merged["ach_bin"] of the row
    class_label,            \* merged["class_label"] of the row
    fill_color,             \* merged["fill_color"] of the row
    ordered_legend_items,   \* the legend entries built from LEGEND_ORDER
    legend_args,            \* what add_legend was called with
    error,                  \* the exception generate_geo_spatial_map ended in
    bin_def,                \* harness: the bin table handed to assign_bin
    value,                  \* harness: the value handed to assign_bin
    bin,                    \* harness: what assign_bin returned
    USERPROFILE,            \* os.environ.get("USERPROFILE", "")
    st_secrets,             \* what the secret store holds for gcp_service_account
    toml_files,             \* the secrets.toml of the profile and working directories
    sa_info,                \* get_bq_client: the service account entry found so far
    consulted,              \* get_bq_client: the sources consulted, in order
    client,                 \* the BigQuery client of the request
    warehouse,              \* the warehouse: the result of the base query and of every other query
    shapefile,              \* the polygons of India_District_Boundaries.shp
    month_year,             \* the selected month
    geography,              \* the selected geography
    state,                  \* the selected state
    fault,                  \* the step at which the environment fails in this request
    gdf,                    \* generate_geo_spatial_map: the polygons read
    df,                     \* fetch_district_data: the data frame built so far
    merged,                 \* generate_geo_spatial_map: the joined table
    queries,                \* the warehouse queries issued in this request, in order
    result,                 \* what generate_geo_spatial_map returned, rendered
    session_state,          \* st.session_state
    generate_clicked,       \* whether this script run was started by Generate Map
    shown,                  \* what this script run has put on the page
    runs,                   \* the number of script runs of the session so far
    last_outcome,           \* how the latest generation request of the session ended
    generations,            \* the generations of the session that returned a map
    today,                  \* datetime.date.today(), as [year, month]
    month_args,             \* the arguments of build_month_options
    month_map               \* main: what build_month_options returned, in dict order

\* The variables of one row's classification, the selections included.
rowVars == <<script, reference_metric_ui, achievement_metric_ui, row, ref_bin, ach_bin,
             class_label, fill_color, ordered_legend_items, legend_args, bin_def,
             value, bin>>

\* The environment of get_bq_client and its locals.
credEnv == <<USERPROFILE, st_secrets, toml_files>>
credVars == <<USERPROFILE, st_secrets, toml_files, sa_info, consulted, client>>

\* The data of a request: the external sources, the selections and the tables built.
dataEnv == <<warehouse, shapefile>>
selVars == <<month_year, geography, state>>
dataVars == <<warehouse, shapefile, month_year, geography, state, fault, gdf, df, merged,
              queries>>

\* The session of the Streamlit app.
sessVars == <<result, session_state, generate_clicked, shown, runs, last_outcome,
              generations, today, month_args, month_map>>

\* Everything outside the classification of one row.
extVars == <<credVars, dataVars, sessVars>>

vars == <<script, pc, reference_metric_ui, achievement_metric_ui, row,
          ref_bin, ach_bin, class_label, fill_color, ordered_legend_items,
          legend_args, error, bin_def, value, bin,
          USERPROFILE, st_secrets, toml_files, sa_info, consulted, client,
          warehouse, shapefile, month_year, geography, state, fault, gdf, df, merged,
          queries, result, session_state, generate_clicked, shown, runs, last_outcome,
          generations, today, month_args, month_map>>

(***************************************************************************)
(* Bounds of the model.                                                    *)
(***************************************************************************)
\* Sampled values lie within Delta hundredths of every threshold of a table.
Delta == 2
\* A finite value far outside every declared threshold (in hundredths).
Huge == 1000000
\* The thresholds of a bin table that is not one of the declared ones are the
\* multiples 100, 200, ... MaxEdge * 100 (in hundredths).
MaxEdge == 3
\* A district name is written with at most MaxPad whitespace characters around it.
MaxPad == 1
\* A session runs the script at most MaxRuns times.
MaxRuns == 2
\* The current date ranges over MaxYears years.
MaxYears == 3

(***************************************************************************)
(* Values and their comparison (Python float, IEEE 754 binary64).          *)
(***************************************************************************)
\* A significand is kept in two limbs of 27 bits: hi * Limb + lo.
Limb == 2^27
\* The hi limb of a 53-bit significand lies in Top .. 2 * Top - 1.
Top == 2^25

\* The finite float (-1)^neg * (hi * Limb + lo) * 2^e: the significand has exactly
\* 53 bits, or is 0 (with e = 0). The exponents of the numbers of this program stay
\* far inside the range of binary64, where no result overflows or is subnormal.
Float(neg, e, hi, lo) == [kind |-> "num", neg |-> neg, e |-> e, hi |-> hi, lo |-> lo]
Zero == Float(FALSE, 0, 0, 0)
NegInf == [kind |-> "-inf", neg |-> TRUE, e |-> 0, hi |-> 0, lo |-> 0]
PosInf == [kind |-> "inf", neg |-> FALSE, e |-> 0, hi |-> 0, lo |-> 0]
NaN == [kind |-> "NaN", neg |-> FALSE, e |-> 0, hi |-> 0, lo |-> 0]
None == [kind |-> "None", neg |-> FALSE, e |-> 0, hi |-> 0, lo |-> 0]

IsMissing(x) == x.kind \in {"None", "NaN"}
IsFinite(x) == x.kind = "num"
IsZero(x) == x.kind = "num" /\ x.hi = 0 /\ x.lo = 0

Abs(n) == IF n < 0 THEN 0 - n ELSE n

\* The element of a singleton. { F(t) : t \in {e} } names the value of e once, so
\* that e is computed once however often F reads it.
Only(S) == CHOOSE x \in S : TRUE

\* Arithmetic on two-limb naturals <<hi, lo>>.
Ge2(a, b) ==
    Only({u[1] > w[1] \/ (u[1] = w[1] /\ u[2] >= w[2]) : u \in {a}, w \in {b}})
Sub2(a, b) ==
    Only({IF u[2] >= w[2] THEN <<u[1] - w[1], u[2] - w[2]>>
          ELSE <<u[1] - w[1] - 1, u[2] + Limb - w[2]>> : u \in {a}, w \in {b}})
Dbl2(a) ==
    Only({IF 2 * u[2] >= Limb THEN <<2 * u[1] + 1, 2 * u[2] - Limb>>
          ELSE <<2 * u[1], 2 * u[2]>> : u \in {a}})
Inc2(a) ==
    Only({IF u[2] + 1 = Limb THEN <<u[1] + 1, 0>> ELSE <<u[1], u[2] + 1>> : u \in {a}})

\* One step of the long division by m: s is <<r, q>>, the running remainder r < 2 * m
\* and the quotient bits q found so far; the step finds the next bit and doubles r.
Bit(m, s) ==
    Only({IF Ge2(u[1], m) THEN <<Dbl2(Sub2(u[1], m)), Inc2(Dbl2(u[2]))>>
          ELSE <<Dbl2(u[1]), Dbl2(u[2])>> : u \in {s}})

Bits8(m, s) == Bit(m, Bit(m, Bit(m, Bit(m, Bit(m, Bit(m, Bit(m, Bit(m, s))))))))

\* Long division of r by m, m <= r < 2 * m, until the quotient has 53 bits: eight bits
\* at a time while more than eight are missing. The result is <<twice the remainder,
\* quotient>>.
RECURSIVE Quotient(_, _)
Quotient(m, s) ==
    Only({IF u[2][1] >= Top THEN u
          ELSE IF u[2][1] < Top \div 2^8 THEN Quotient(m, Bits8(m, u))
          ELSE Quotient(m, Bit(m, u)) : u \in {s}})

Shl8(m) == Dbl2(Dbl2(Dbl2(Dbl2(Dbl2(Dbl2(Dbl2(Dbl2(m))))))))

\* m * 2^e with m shifted left until it has 53 bits, m # 0.
RECURSIVE Scale(_, _)
Scale(m, e) ==
    Only({IF u[1] >= Top THEN <<u, k>>
          ELSE IF u[1] < Top \div 2^8 THEN Scale(Shl8(u), k - 8)
          ELSE Scale(Dbl2(u), k - 1) : u \in {m}, k \in {e}})

\* float(n) of an integer n (exact: |n| < 2^53).
FromInt(n) ==
    IF n = 0 THEN Zero
    ELSE Only({Float(n < 0, u[2], u[1][1], u[1][2]) :
               u \in {Scale(<<Abs(n) \div Limb, Abs(n) % Limb>>, 0)}})

\* The quotient rq = <<twice the remainder, 53 quotient bits>> of a division by the
\* significand mb, rounded to the nearest, a tie to the even significand, with the
\* sign neg and the exponent e0.
Rounded(neg, e0, mb, rq) ==
    LET up == IF rq[1] = mb THEN rq[2][2] % 2 = 1 ELSE Ge2(rq[1], mb)
    IN  Only({IF q[1] = 2 * Top THEN Float(neg, e0 + 1, Top, 0)
              ELSE Float(neg, e0, q[1], q[2]) :
              q \in {IF up THEN Inc2(rq[2]) ELSE rq[2]}})

\* a / b of two finite floats, b # 0: the exact quotient rounded to 53 bits, to the
\* nearest, a tie to the even significand.
FDiv(a, b) ==
    Only({IF IsZero(x) THEN Float(x.neg # y.neg, 0, 0, 0)
          ELSE LET ma == <<x.hi, x.lo>>
                   mb == <<y.hi, y.lo>>
                   big == Ge2(ma, mb)
                   e0 == x.e - y.e - (IF big THEN 52 ELSE 53)
               IN  Only({Rounded(x.neg # y.neg, e0, mb, rq) :
                         rq \in {Quotient(mb, <<IF big THEN ma ELSE Dbl2(ma), <<0, 0>>>>)}})
          : x \in {a}, y \in {b}})

Hundred == FromInt(100)

\* The float a decimal literal with two decimals denotes, n in hundredths (2.5 is
\* Num(250)): the float nearest to n / 100.
Num(n) == FDiv(FromInt(n), Hundred)

\* a < b on two finite floats; 0.0 and -0.0 are equal.
MagLT(a, b) ==
    IF IsZero(b) THEN FALSE
    ELSE IF IsZero(a) THEN TRUE
    ELSE a.e < b.e \/ (a.e = b.e /\ (a.hi < b.hi \/ (a.hi = b.hi /\ a.lo < b.lo)))

Less(a, b) ==
    IF IsZero(a) /\ IsZero(b) THEN FALSE
    ELSE IF a.neg # b.neg THEN a.neg
    ELSE IF a.neg THEN MagLT(b, a) ELSE MagLT(a, b)

\* a >= b on floats: every comparison with NaN is False.
GE(a, b) ==
    IF a.kind = "NaN" \/ b.kind = "NaN" THEN FALSE
    ELSE IF a.kind = "inf" \/ b.kind = "-inf" THEN TRUE
    ELSE IF a.kind = "-inf" \/ b.kind = "inf" THEN FALSE
    ELSE ~Less(a, b)

\* a < b on floats.
LT(a, b) ==
    IF a.kind = "NaN" \/ b.kind = "NaN" THEN FALSE
    ELSE IF a.kind = "inf" \/ b.kind = "-inf" THEN FALSE
    ELSE IF a.kind = "-inf" \/ b.kind = "inf" THEN TRUE
    ELSE Less(a, b)

(***************************************************************************)
(* Dictionaries.  A Python dict is a function; d[k] on an absent key       *)
(* raises KeyError, which Lookup returns as the marker KeyError.           *)
(***************************************************************************)
KeyError == "KeyError"
\* Python raises TypeError when None is compared with a float.
TypeError == "TypeError"
HasKey(d, k) == k \in DOMAIN d

\* One bin table {"low": (-inf, lowHi), "med": (medLo, medHi), "high": (highLo, inf)},
\* in the insertion order of the dict literal.
BinTable(lowHi, medLo, medHi, highLo) ==
    << [k |-> "low",  lo |-> NegInf,      hi |-> Num(lowHi)],
       [k |-> "med",  lo |-> Num(medLo),  hi |-> Num(medHi)],
       [k |-> "high", lo |-> Num(highLo), hi |-> PosInf] >>

(***************************************************************************)
(* Metric configuration.                                                   *)
(***************************************************************************)
Scripts == {"app", "app_v1"}

METRICS_app ==
    [m \in {"AEPS Market Size", "Market Share"} |->
        IF m = "AEPS Market Size" THEN "AEPS_MARKET_SIZE" ELSE "SM_AEPS_MARKET_SHARE"]

METRICS_v1 ==
    [m \in {"AEPS Market Size", "Market Share", "Trans Density (per 10k)",
            "SP Density (per 10k)", "CMS GTV", "Monthly Visit Coverage",
            "Partner Presence", "Field Presence",
            "SP Winback (as % of Potential SP)"} |->
        CASE m = "AEPS Market Size" -> "AEPS_MARKET_SIZE"
          [] m = "Market Share" -> "SM_AEPS_MARKET_SHARE"
          [] m = "Trans Density (per 10k)" -> "TRANS_DENSITY_10K"
          [] m = "SP Density (per 10k)" -> "SP_DENSITY_10K"
          [] m = "CMS GTV" -> "CMS_GTV"
          [] m = "Monthly Visit Coverage" -> "MONTHLY_VISIT_COVERAGE"
          [] m = "Partner Presence" -> "PARTNER_PRESENCE"
          [] m = "Field Presence" -> "FIELD_PRESENCE"
          [] m = "SP Winback (as % of Potential SP)" -> "SP_WINBACK_RATIO"]

METRICS(s) == IF s = "app" THEN METRICS_app ELSE METRICS_v1

\* Reference bins with the high bin starting at 20 Cr.
REF_BINS_20 == [m \in {"AEPS Market Size"} |-> BinTable(500, 500, 2000, 2000)]

\* app.py: reference bins (Cr).
REF_BINS == [m \in {"AEPS Market Size"} |-> BinTable(500, 500, 2500, 2500)]

\* app.py: achievement bins (market share).
ACH_BINS == [m \in {"Market Share"} |-> BinTable(10, 10, 20, 20)]

\* METRIC_BINS with "Partner Presence" med written (2, 10): 10 <= value < 11 is in no bin.
METRIC_BINS_gap ==
    [m \in {"AEPS Market Size", "Market Share", "Trans Density (per 10k)",
            "SP Density (per 10k)", "CMS_GTV", "Monthly Visit Coverage",
            "Partner Presence", "Field Presence",
            "SP Winback (as % of Potential SP)"} |->
        CASE m = "AEPS Market Size" -> BinTable(500, 500, 2500, 2500)
          [] m = "Market Share" -> BinTable(10, 10, 20, 20)
          [] m = "Trans Density (per 10k)" -> BinTable(200, 200, 500, 500)
          [] m = "SP Density (per 10k)" -> BinTable(50, 50, 100, 100)
          [] m = "CMS_GTV" -> BinTable(100, 100, 500, 500)
          [] m = "Monthly Visit Coverage" -> BinTable(400, 400, 1000, 1000)
          [] m = "Partner Presence" -> BinTable(200, 200, 1000, 1100)
          [] m = "Field Presence" -> BinTable(100, 100, 200, 200)
          [] m = "SP Winback (as % of Potential SP)" -> BinTable(1000, 1000, 2500, 2500)]

\* app_v1.py: one table per key; note the key "CMS_GTV".
METRIC_BINS ==
    [m \in {"AEPS Market Size", "Market Share", "Trans Density (per 10k)",
            "SP Density (per 10k)", "CMS_GTV", "Monthly Visit Coverage",
            "Partner Presence", "Field Presence",
            "SP Winback (as % of Potential SP)"} |->
        CASE m = "AEPS Market Size" -> BinTable(500, 500, 2500, 2500)
          [] m = "Market Share" -> BinTable(10, 10, 20, 20)
          [] m = "Trans Density (per 10k)" -> BinTable(200, 200, 500, 500)
          [] m = "SP Density (per 10k)" -> BinTable(50, 50, 100, 100)
          [] m = "CMS_GTV" -> BinTable(100, 100, 500, 500)
          [] m = "Monthly Visit Coverage" -> BinTable(400, 400, 1000, 1000)
          [] m = "Partner Presence" -> BinTable(200, 200, 1100, 1100)
          [] m = "Field Presence" -> BinTable(100, 100, 200, 200)
          [] m = "SP Winback (as % of Potential SP)" -> BinTable(1000, 1000, 2500, 2500)]

\* The dict generate_geo_spatial_map reads the reference / achievement bins from.
RefBinsDict(s) == IF s = "app" THEN REF_BINS ELSE METRIC_BINS
AchBinsDict(s) == IF s = "app" THEN ACH_BINS ELSE METRIC_BINS

Desc(h, m, l) == [high |-> h, med |-> m, low |-> l]

\* app_v1.py: the range descriptions, local to generate_geo_spatial_map.
BIN_DESC ==
    [m \in {"AEPS Market Size", "Market Share", "Trans Density (per 10k)",
            "SP Density (per 10k)", "CMS_GTV", "Monthly Visit Coverage",
            "Partner Presence", "Field Presence",
            "SP Winback (as % of Potential SP)"} |->
        CASE m = "AEPS Market Size" -> Desc("> 25 Cr", "5 - 25 Cr", "< 5 Cr")
          [] m = "Market Share" -> Desc("> 20%", "10 - 20%", "< 10%")
          [] m = "Trans Density (per 10k)" -> Desc("> 5", "2 - 5", "< 2")
          [] m = "SP Density (per 10k)" -> Desc("> 1", "0.5 - 1", "< 0.5")
          [] m = "CMS_GTV" -> Desc("> 5 Cr", "1 - 5 Cr", "< 1 Cr")
          [] m = "Monthly Visit Coverage" -> Desc("> 10%", "4 - 10%", "< 4%")
          [] m = "Partner Presence" -> Desc("> 10", "2 - 10", "<= 1")
          [] m = "Field Presence" -> Desc(">= 2", "1", "0")
          [] m = "SP Winback (as % of Potential SP)" -> Desc("> 25%", "10 - 25%", "< 10%")]

\* app.py: the two description literals of generate_geo_spatial_map.
ref_bins_desc_app == Desc("> 25 Cr", "5 - 25 Cr", "< 5 Cr")
ach_bins_desc_app == Desc("> 20%", "10 - 20%", "< 10%")

\* MATRIX_COLOR with the ("low", "high") entry a copy of the ("med", "high") entry.
MATRIX_COLOR_dup ==
    [p \in {"low", "med", "high"} \X {"low", "med", "high"} |->
        CASE p = <<"low", "low">>   -> <<"Light Red", "#ffb3b3">>
          [] p = <<"low", "med">>   -> <<"Yellow", "#ffff66">>
          [] p = <<"low", "high">>  -> <<"Green", "#33cc33">>
          [] p = <<"med", "low">>   -> <<"Red", "#ff3333">>
          [] p = <<"med", "med">>   -> <<"Mustard", "#ffcc33">>
          [] p = <<"med", "high">>  -> <<"Green", "#33cc33">>
          [] p = <<"high", "low">>  -> <<"Dark Red", "#8b0000">>
          [] p = <<"high", "med">>  -> <<"Orange", "#ff7f00">>
          [] p = <<"high", "high">> -> <<"Dark Green", "#006400">>]

\* MATRIX_COLOR with the ("med", "low") entry equal to the ("low", "med") entry.
MATRIX_COLOR_sym ==
    [p \in {"low", "med", "high"} \X {"low", "med", "high"} |->
        CASE p = <<"low", "low">>   -> <<"Light Red", "#ffb3b3">>
          [] p = <<"low", "med">>   -> <<"Yellow", "#ffff66">>
          [] p = <<"low", "high">>  -> <<"Light Green", "#b7ffb7">>
          [] p = <<"med", "low">>   -> <<"Yellow", "#ffff66">>
          [] p = <<"med", "med">>   -> <<"Mustard", "#ffcc33">>
          [] p = <<"med", "high">>  -> <<"Green", "#33cc33">>
          [] p = <<"high", "low">>  -> <<"Dark Red", "#8b0000">>
          [] p = <<"high", "med">>  -> <<"Orange", "#ff7f00">>
          [] p = <<"high", "high">> -> <<"Dark Green", "#006400">>]

\* 3x3 color matrix (reference rows, achievement columns): (name, hex color).
MATRIX_COLOR ==
    [p \in {"low", "med", "high"} \X {"low", "med", "high"} |->
        CASE p = <<"low", "low">>   -> <<"Light Red", "#ffb3b3">>
          [] p = <<"low", "med">>   -> <<"Yellow", "#ffff66">>
          [] p = <<"low", "high">>  -> <<"Light Green", "#b7ffb7">>
          [] p = <<"med", "low">>   -> <<"Red", "#ff3333">>
          [] p = <<"med", "med">>   -> <<"Mustard", "#ffcc33">>
          [] p = <<"med", "high">>  -> <<"Green", "#33cc33">>
          [] p = <<"high", "low">>  -> <<"Dark Red", "#8b0000">>
          [] p = <<"high", "med">>  -> <<"Orange", "#ff7f00">>
          [] p = <<"high", "high">> -> <<"Dark Green", "#006400">>]

\* The insertion order of MATRIX_COLOR's keys (dict iteration order).
MATRIX_KEYS ==
    << <<"low", "low">>, <<"low", "med">>, <<"low", "high">>,
       <<"med", "low">>, <<"med", "med">>, <<"med", "high">>,
       <<"high", "low">>, <<"high", "med">>, <<"high", "high">> >>

LEGEND_ORDER ==
    << "Light Red", "Red", "Dark Red", "Yellow", "Mustard", "Orange",
       "Light Green", "Green", "Dark Green", "No Data" >>

\* BIN_PRETTY with "med" spelled as add_legend spells it.
BIN_PRETTY_medium == [b \in {"low", "med", "high"} |->
    CASE b = "low" -> "Low" [] b = "med" -> "Medium" [] b = "high" -> "High"]

BIN_PRETTY == [b \in {"low", "med", "high"} |->
    CASE b = "low" -> "Low" [] b = "med" -> "Med" [] b = "high" -> "High"]

\* str.title() on the bin names it is applied to.
Title(s) ==
    CASE s = "low" -> "Low" [] s = "med" -> "Med" [] s = "high" -> "High"
      [] s = "na" -> "Na" [] OTHER -> s

(***************************************************************************)
(* assign_bin                                                              *)
(***************************************************************************)
RECURSIVE assign_bin_from_upper_inclusive(_, _, _)
\* assign_bin's loop with low and med tested as lo <= value <= hi.
assign_bin_from_upper_inclusive(x, def, i) ==
    IF x.kind = "None" THEN TypeError
    ELSE IF i > Len(def) THEN "na"
    ELSE IF def[i].k = "high"
         THEN IF GE(x, def[i].lo) THEN def[i].k
              ELSE assign_bin_from_upper_inclusive(x, def, i + 1)
         ELSE IF GE(x, def[i].lo) /\ GE(def[i].hi, x) THEN def[i].k
              ELSE assign_bin_from_upper_inclusive(x, def, i + 1)

RECURSIVE assign_bin_from_strict_high(_, _, _)
\* assign_bin's loop with the high bin tested as value > lo.
assign_bin_from_strict_high(x, def, i) ==
    IF x.kind = "None" THEN TypeError
    ELSE IF i > Len(def) THEN "na"
    ELSE IF def[i].k = "high"
         THEN IF GE(x, def[i].lo) /\ x # def[i].lo THEN def[i].k
              ELSE assign_bin_from_strict_high(x, def, i + 1)
         ELSE IF GE(x, def[i].lo) /\ LT(x, def[i].hi) THEN def[i].k
              ELSE assign_bin_from_strict_high(x, def, i + 1)

RECURSIVE assign_bin_from_raising(_, _, _)
\* assign_bin's loop ending in raise ValueError when no interval matched.
assign_bin_from_raising(x, def, i) ==
    IF x.kind = "None" THEN TypeError
    ELSE IF i > Len(def) THEN "ValueError"
    ELSE IF def[i].k = "high"
         THEN IF GE(x, def[i].lo) THEN def[i].k
              ELSE assign_bin_from_raising(x, def, i + 1)
         ELSE IF GE(x, def[i].lo) /\ LT(x, def[i].hi) THEN def[i].k
              ELSE assign_bin_from_raising(x, def, i + 1)

RECURSIVE assign_bin_from(_, _, _)
\* The for loop of assign_bin over bin_def.items(), from entry i on; comparing
\* None with a bound raises TypeError.
assign_bin_from(x, def, i) ==
    IF x.kind = "None" THEN TypeError
    ELSE IF i > Len(def) THEN "na"
    ELSE IF def[i].k = "high"
         THEN IF GE(x, def[i].lo) THEN def[i].k
              ELSE assign_bin_from(x, def, i + 1)
         ELSE IF GE(x, def[i].lo) /\ LT(x, def[i].hi) THEN def[i].k
              ELSE assign_bin_from(x, def, i + 1)

\* assign_bin without its first test (value is None or NaN).
assign_bin_unguarded(x, def) == assign_bin_from(x, def, 1)

assign_bin(x, def) ==
    IF x.kind = "None" \/ x.kind = "NaN" THEN "na"
    ELSE assign_bin_from(x, def, 1)

(***************************************************************************)
(* class_and_color, the closure of generate_geo_spatial_map                *)
(***************************************************************************)
NO_DATA == <<"No Data", "#d9d9d9">>

PrettyTitle(label, rb, ab) ==
    label \o " (Ref=" \o Title(rb) \o ", Ach=" \o Title(ab) \o ")"

\* class_and_color with the first test written with "and".
class_and_color_and(rb, ab) ==
    IF rb = "na" /\ ab = "na" THEN NO_DATA
    ELSE IF ~HasKey(MATRIX_COLOR, <<rb, ab>>) THEN <<KeyError, KeyError>>
    ELSE <<PrettyTitle(MATRIX_COLOR[<<rb, ab>>][1], rb, ab), MATRIX_COLOR[<<rb, ab>>][2]>>

\* Returns (class_label, fill_color); <<KeyError, KeyError>> when MATRIX_COLOR[(rb, ab)] raises.
class_and_color(rb, ab) ==
    IF rb = "na" \/ ab = "na" THEN NO_DATA
    ELSE IF ~HasKey(MATRIX_COLOR, <<rb, ab>>) THEN <<KeyError, KeyError>>
    ELSE <<PrettyTitle(MATRIX_COLOR[<<rb, ab>>][1], rb, ab), MATRIX_COLOR[<<rb, ab>>][2]>>

(***************************************************************************)
(* The legend of generate_geo_spatial_map                                  *)
(***************************************************************************)
\* class_meta[label] = (color, ref_bin, ach_bin): filled in the iteration order of
\* MATRIX_COLOR, so the last key carrying a label is the one that stays.
class_meta ==
    [l \in {MATRIX_COLOR[MATRIX_KEYS[i]][1] : i \in 1..Len(MATRIX_KEYS)} |->
        LET last == CHOOSE i \in 1..Len(MATRIX_KEYS) :
                        /\ MATRIX_COLOR[MATRIX_KEYS[i]][1] = l
                        /\ \A j \in 1..Len(MATRIX_KEYS) :
                               MATRIX_COLOR[MATRIX_KEYS[j]][1] = l => j <= i
        IN  <<MATRIX_COLOR[MATRIX_KEYS[last]][2], MATRIX_KEYS[last][1], MATRIX_KEYS[last][2]>>]

PrettyLegend(label, rb, ab) ==
    label \o " (Ref=" \o BIN_PRETTY[rb] \o ", Ach=" \o BIN_PRETTY[ab] \o ")"

RECURSIVE legend_from_present(_)
\* The legend loop listing only the classes that occur in merged.
legend_from_present(i) ==
    IF i > Len(LEGEND_ORDER) THEN <<>>
    ELSE IF LEGEND_ORDER[i] = "No Data" THEN <<NO_DATA>> \o legend_from_present(i + 1)
    ELSE IF /\ HasKey(class_meta, LEGEND_ORDER[i])
            /\ class_label = PrettyLegend(LEGEND_ORDER[i], class_meta[LEGEND_ORDER[i]][2],
                                          class_meta[LEGEND_ORDER[i]][3])
         THEN << <<PrettyLegend(LEGEND_ORDER[i], class_meta[LEGEND_ORDER[i]][2],
                                class_meta[LEGEND_ORDER[i]][3]),
                   class_meta[LEGEND_ORDER[i]][1]>> >> \o legend_from_present(i + 1)
         ELSE legend_from_present(i + 1)

RECURSIVE legend_from(_)
\* The loop over LEGEND_ORDER, from entry i on.
legend_from(i) ==
    IF i > Len(LEGEND_ORDER) THEN <<>>
    ELSE IF LEGEND_ORDER[i] = "No Data" THEN <<NO_DATA>> \o legend_from(i + 1)
    ELSE IF HasKey(class_meta, LEGEND_ORDER[i])
         THEN << <<PrettyLegend(LEGEND_ORDER[i], class_meta[LEGEND_ORDER[i]][2],
                                class_meta[LEGEND_ORDER[i]][3]),
                   class_meta[LEGEND_ORDER[i]][1]>> >> \o legend_from(i + 1)
         ELSE legend_from(i + 1)

build_legend == legend_from(1)

(***************************************************************************)
(* The selectors of main()                                                 *)
(***************************************************************************)
\* st.selectbox("Reference Metric", ...) / st.selectbox("Achievement Metric", ...)
RefOptions(s) == IF s = "app" THEN {"AEPS Market Size"} ELSE DOMAIN METRICS_v1
AchOptions(s) == IF s = "app" THEN {"Market Share"} ELSE DOMAIN METRICS_v1

\* The range descriptions handed to add_legend; KeyError when BIN_DESC[metric] raises.
RefBinsDesc(s, m) ==
    IF s = "app" THEN ref_bins_desc_app
    ELSE IF HasKey(BIN_DESC, m) THEN BIN_DESC[m] ELSE Desc(KeyError, KeyError, KeyError)
AchBinsDesc(s, m) ==
    IF s = "app" THEN ach_bins_desc_app
    ELSE IF HasKey(BIN_DESC, m) THEN BIN_DESC[m] ELSE Desc(KeyError, KeyError, KeyError)

(***************************************************************************)
(* Credentials: get_bq_client and _load_sa_from_toml_files                 *)
(*                                                                         *)
(* An entry gcp_service_account is described by its kind:                   *)
(*   "mapping"      a table with the fields of a service account;          *)
(*   "bad_mapping"  a non-empty table that lacks fields of a service       *)
(*                  account ( from_service_account_info: ValueError );     *)
(*   "json"         a string holding the table "mapping" as JSON;          *)
(*   "text"         a non-empty string that is not JSON;                   *)
(*   "scalar"       a non-empty value that is neither a string nor a table *)
(*                  ( a number, true, an array );                          *)
(*   "empty"        a falsy value ( "", 0, false, an empty table ).        *)
(* The secret store can also be "unreadable" ( no secrets file, or one     *)
(* that does not parse: st.secrets.get puts Streamlit's own alert on the   *)
(* page and raises ) or hold "no_entry"; a file can be "absent",           *)
(* "unreadable" ( open or tomllib.load raises ) or hold "no_entry".        *)
(***************************************************************************)
EntryKinds == {"mapping", "bad_mapping", "json", "text", "scalar", "empty"}
StoreKinds == {"unreadable", "no_entry"} \cup EntryKinds
FileKinds == {"absent", "unreadable", "no_entry"} \cup EntryKinds
FileIds == {"profile", "cwd"}

\* os.getcwd() and the value of USERPROFILE when it is set.
Getcwd == "/app"
ProfileDir == "C:/Users/u"

\* os.path.join(dir, ".streamlit", "secrets.toml"); an empty dir gives a relative path.
SecretsToml(dir) ==
    IF dir = "" THEN ".streamlit/secrets.toml" ELSE dir \o "/.streamlit/secrets.toml"

\* candidates with the working directory first.
Candidates_cwd_first(userprofile) == <<SecretsToml(Getcwd), SecretsToml(userprofile)>>

\* candidates of _load_sa_from_toml_files
Candidates(userprofile) == <<SecretsToml(userprofile), SecretsToml(Getcwd)>>

\* The file a path names: a relative path is resolved against the working directory.
FileAt(path) ==
    IF path = SecretsToml(Getcwd) \/ path = SecretsToml("") THEN "cwd" ELSE "profile"

\* if sa_info: / if sa:
Truthy(entry) == entry \in EntryKinds \ {"empty"}

\* The alert st.secrets puts on the page (st.error) before it raises, when it finds no
\* secrets file or cannot parse it.
SecretsAlert == "No secrets found"

\* isinstance(sa_info, str)
IsStr(entry) == entry \in {"json", "text"}

\* What json.loads, Credentials.from_service_account_info and bigquery.Client make of
\* the entry found: "" when the client is built, else the exception raised.  Only an
\* entry of the secret store is parsed with json.loads when it is a string; a string
\* from a file is handed to from_service_account_info as it is, which calls .keys() on
\* it.
ClientError(info) ==
    IF IsStr(info.entry) /\ info.source = "st.secrets"
    THEN IF info.entry = "json" THEN "" ELSE "JSONDecodeError"
    ELSE CASE info.entry = "mapping" -> ""
           [] info.entry = "bad_mapping" -> "ValueError"
           [] OTHER -> "AttributeError"

NoInfo == [entry |-> "None", source |-> ""]

\* sa_info = st.secrets.get("gcp_service_account", None), None when it raises; a store
\* that cannot be read has put its alert on the page by then.
ReadSecrets ==
    /\ pc = "get_bq_client"
    /\ consulted' = Append(consulted, "st.secrets")
    /\ sa_info' = IF st_secrets \in EntryKinds
                  THEN [entry |-> st_secrets, source |-> "st.secrets"]
                  ELSE NoInfo
    /\ shown' = IF st_secrets = "unreadable"
                THEN [shown EXCEPT !.errors = Append(@, SecretsAlert)]
                ELSE shown
    /\ pc' = IF Truthy(sa_info'.entry) THEN "build_client" ELSE "load_toml"
    /\ UNCHANGED <<rowVars, error, credEnv, client, dataVars, result, session_state,
                   generate_clicked, runs, last_outcome, generations, today, month_args,
                   month_map>>

\* One iteration of the loop of _load_sa_from_toml_files, and its return.
TryCandidate ==
    /\ pc = "load_toml"
    /\ LET i == Len(consulted)
           path == Candidates(USERPROFILE)[i]
           found == toml_files[FileAt(path)]
       IN  /\ consulted' = Append(consulted, path)
           /\ IF Truthy(found)
              THEN /\ sa_info' = [entry |-> found, source |-> "file:" \o path]
                   /\ pc' = "build_client"
              ELSE /\ sa_info' = NoInfo
                   /\ pc' = IF i = Len(Candidates(USERPROFILE)) THEN "no_credentials"
                            ELSE "load_toml"
    /\ UNCHANGED <<rowVars, error, credEnv, client, dataVars, sessVars>>

\* json.loads (secret store only), Credentials.from_service_account_info, Client.
BuildClient ==
    /\ pc = "build_client"
    /\ IF ClientError(sa_info) = ""
       THEN /\ client' = "Client"
            /\ pc' = "client_ready"
            /\ error' = error
       ELSE /\ client' = client
            /\ pc' = "raised"
            /\ error' = ClientError(sa_info)
    /\ UNCHANGED <<rowVars, credEnv, sa_info, consulted, dataVars, sessVars>>

\* raise RuntimeError("No BigQuery credentials found. ...")
RaiseNoCredentials ==
    /\ pc = "no_credentials"
    /\ error' = "RuntimeError: No BigQuery credentials found"
    /\ pc' = "raised"
    /\ UNCHANGED <<rowVars, credVars, dataVars, sessVars>>

\* No credential anywhere and no call of get_bq_client yet.
CredsIdle ==
    /\ USERPROFILE = "" /\ st_secrets = "no_entry"
    /\ toml_files = [f \in FileIds |-> "absent"]
    /\ sa_info = NoInfo /\ consulted = <<>> /\ client = ""

(***************************************************************************)
(* Data frames: fetch_district_data and the geometry join                  *)
(*                                                                         *)
(* A district name is a record: its letters without regard to case, the    *)
(* flag upper (the spelling is all upper case) and pad, the number of      *)
(* whitespace characters around it.  Two names are the same string exactly *)
(* when the records are equal.                                             *)
(*                                                                         *)
(* A row of the data frame df is [DISTRICT_NAME, State, cols] (State is    *)
(* the column STATE, a word TLA+ reserves), cols                           *)
(* mapping the name of every metric column the frame has so far to its     *)
(* value.  A NULL of the warehouse is None; to_dataframe turns it into NaN.*)
(* AEPS_GTV is a float64 number of rupees.                                  *)
(***************************************************************************)
Name(l, u, p) == [letters |-> l, upper |-> u, pad |-> p]
Spellings(l) == {Name(l, u, p) : u \in BOOLEAN, p \in 0..MaxPad}

\* NaN in a name column (a row the join found no partner for).
NoName == Name("", TRUE, 0)

\* .astype(str).str.upper().str.strip()
Normalize(n) == Name(n.letters, TRUE, 0)

\* to_dataframe() on a numeric column: NULL becomes NaN.
ToFrame(v) == IF v.kind = "None" THEN NaN ELSE v

TenMillion == FromInt(10000000)

\* df["AEPS_GTV"] / 1e7: an infinity and NaN stay what they are.
Per1e7(x) == IF x.kind = "num" THEN FDiv(x, TenMillion) ELSE x

\* Float division of two columns (IEEE): NaN / x, x / NaN, 0 / 0 and inf / inf are NaN,
\* x / 0 and inf / x are an infinity, x / inf is 0; the sign is that of a times that of b.
Div(a, b) ==
    IF IsMissing(a) \/ IsMissing(b) THEN NaN
    ELSE IF ~IsFinite(a)
         THEN (IF ~IsFinite(b) THEN NaN ELSE IF a.neg = b.neg THEN PosInf ELSE NegInf)
    ELSE IF ~IsFinite(b) THEN Float(a.neg # b.neg, 0, 0, 0)
    ELSE IF IsZero(b)
         THEN (IF IsZero(a) THEN NaN ELSE IF a.neg = b.neg THEN PosInf ELSE NegInf)
    ELSE FDiv(a, b)

\* fillna that leaves the value as it is.
FillNa_nothing(v) == v

\* .fillna(0) on one value
FillNa(v) == IF IsMissing(v) THEN Zero ELSE v

\* A plan that issues the density query a second time.
QueryPlan_retry(s) ==
    IF s = "app" THEN <<"q_base">>
    ELSE <<"q_base", "q_density", "q_density", "q_sp_winback", "q_field", "q_partner",
           "q_mvc", "q_cms">>

\* The queries of fetch_district_data in the order they are issued.
QueryPlan(s) ==
    IF s = "app" THEN <<"q_base">>
    ELSE <<"q_base", "q_density", "q_sp_winback", "q_field", "q_partner", "q_mvc", "q_cms">>

SecondaryQueries == {"q_density", "q_sp_winback", "q_field", "q_partner", "q_mvc", "q_cms"}

\* The metric columns a query's result is merged with.
QueryColumns(q) ==
    CASE q = "q_base" -> {"AEPS_GTV", "AEPS_MARKET_SIZE", "SM_AEPS_MARKET_SHARE"}
      [] q = "q_density" -> {"TRANS_DENSITY_10K", "SP_DENSITY_10K"}
      [] q = "q_sp_winback" -> {"SP_WINBACK_RATIO"}
      [] q = "q_field" -> {"FIELD_PRESENCE"}
      [] q = "q_partner" -> {"PARTNER_PRESENCE"}
      [] q = "q_mvc" -> {"MONTHLY_VISIT_COVERAGE"}
      [] q = "q_cms" -> {"CMS_GTV"}

\* The columns filled with 0 right after their merge.
FilledAtMerge(q) ==
    IF q \in {"q_sp_winback", "q_field", "q_partner", "q_mvc"} THEN QueryColumns(q) ELSE {}

\* The fill loop without the three columns that only the loop fills.
FILL_COLUMNS_presence ==
    {"MONTHLY_VISIT_COVERAGE", "PARTNER_PRESENCE", "FIELD_PRESENCE", "SP_WINBACK_RATIO"}

\* The columns of the final fill loop.
FILL_COLUMNS ==
    {"TRANS_DENSITY_10K", "SP_DENSITY_10K", "CMS_GTV", "MONTHLY_VISIT_COVERAGE",
     "PARTNER_PRESENCE", "FIELD_PRESENCE", "SP_WINBACK_RATIO"}

\* The metric columns of the frame fetch_district_data returns.
FrameColumns(s) ==
    UNION {QueryColumns(QueryPlan(s)[i]) : i \in 1..Len(QueryPlan(s))}

\* df of the base query: to_dataframe, the normalisation of DISTRICT_NAME (app_v1 only)
\* and the market share column.
BaseFrame(s, rows) ==
    [i \in 1..Len(rows) |->
        LET gtv == ToFrame(rows[i].AEPS_GTV)
            size == ToFrame(rows[i].AEPS_MARKET_SIZE)
        IN  [DISTRICT_NAME |-> IF s = "app_v1" THEN Normalize(rows[i].DISTRICT_NAME)
                               ELSE rows[i].DISTRICT_NAME,
             State |-> rows[i].State,
             cols |-> [c \in QueryColumns("q_base") |->
                          IF c = "AEPS_GTV" THEN gtv
                          ELSE IF c = "AEPS_MARKET_SIZE" THEN size
                          ELSE Div(Per1e7(gtv), size)]]]

\* The frame of a secondary query: to_dataframe and the normalisation of District.
SecondaryFrame(rows) ==
    [i \in 1..Len(rows) |->
        [District |-> Normalize(rows[i].District),
         cols |-> [c \in DOMAIN rows[i].cols |-> ToFrame(rows[i].cols[c])]]]

\* The rows of right whose District equals key.
Hits(key, right) ==
    LET Same(r) == r.District = key
    IN  SelectSeq(right, Same)

RECURSIVE LeftMerge(_, _, _)
\* df.merge(right, left_on="DISTRICT_NAME", right_on="District", how="left") followed
\* by drop(columns=["District"]): one row per matching row of right, and one row of
\* NaN for a row of df that matches none.
LeftMerge(left, right, columns) ==
    IF left = <<>> THEN <<>>
    ELSE LET l == Head(left)
             hits == Hits(l.DISTRICT_NAME, right)
             rows == IF hits = <<>>
                     THEN << [l EXCEPT !.cols = [c \in columns |-> NaN] @@ @] >>
                     ELSE [i \in 1..Len(hits) |-> [l EXCEPT !.cols = hits[i].cols @@ @]]
         IN  rows \o LeftMerge(Tail(left), right, columns)

\* df[col] = df[col].fillna(0) for the columns in columns that df has.
FillColumns(frame, columns) ==
    [i \in 1..Len(frame) |->
        [frame[i] EXCEPT !.cols = [c \in DOMAIN @ |->
                                     IF c \in columns THEN FillNa(@[c]) ELSE @[c]]]]

\* One secondary query merged into df, with the fill that follows its merge.
MergeQuery(frame, q, rows) ==
    FillColumns(LeftMerge(frame, SecondaryFrame(rows), QueryColumns(q)), FilledAtMerge(q))

\* A row of merged: the polygon's columns, the columns of its partner in df and the
\* classification columns added later.
MapRow(p, d) ==
    [District |-> p.District, STATE_x |-> p.State,
     DISTRICT_NAME |-> d.DISTRICT_NAME, STATE_y |-> d.State, cols |-> d.cols,
     ref_bin |-> "", ach_bin |-> "", class_label |-> "", fill_color |-> ""]

\* The df columns of a polygon without partner: NaN everywhere.
NoPartner(s) == [DISTRICT_NAME |-> NoName, State |-> "", cols |-> [c \in FrameColumns(s) |-> NaN]]

\* The rows of frame whose DISTRICT_NAME equals key.
Partners(key, frame) ==
    LET Same(r) == r.DISTRICT_NAME = key
    IN  SelectSeq(frame, Same)

RECURSIVE GeoMerge_inner(_, _, _)
\* gdf.merge(df, ..., how="inner")
GeoMerge_inner(polygons, frame, s) ==
    IF polygons = <<>> THEN <<>>
    ELSE LET p == Head(polygons)
             hits == Partners(p.District, frame)
         IN  [i \in 1..Len(hits) |-> MapRow(p, hits[i])]
                 \o GeoMerge_inner(Tail(polygons), frame, s)

RECURSIVE GeoMerge(_, _, _)
\* gdf.merge(df, left_on="District", right_on="DISTRICT_NAME", how="left")
GeoMerge(polygons, frame, s) ==
    IF polygons = <<>> THEN <<>>
    ELSE LET p == Head(polygons)
             hits == Partners(p.District, frame)
             rows == IF hits = <<>> THEN << MapRow(p, NoPartner(s)) >>
                     ELSE [i \in 1..Len(hits) |-> MapRow(p, hits[i])]
         IN  rows \o GeoMerge(Tail(polygons), frame, s)

\* merged["STATE_x"] == state
KeepState(r, st) == r.STATE_x = st

\* if (geography == "State") and (state != "All States"): merged = merged[...]
StateFilter(m, g, st) ==
    LET Keep(r) == KeepState(r, st)
    IN  IF g = "State" /\ st # "All States" THEN SelectSeq(m, Keep) ELSE m

\* The two apply(assign_bin) calls and class_and_color on one row of merged.
ClassifyRow(r, s, ref, ach) ==
    LET rb == assign_bin(r.cols[METRICS(s)[ref]], RefBinsDict(s)[ref])
        ab == assign_bin(r.cols[METRICS(s)[ach]], AchBinsDict(s)[ach])
    IN  [r EXCEPT !.ref_bin = rb, !.ach_bin = ab,
                  !.class_label = class_and_color(rb, ab)[1],
                  !.fill_color = class_and_color(rb, ab)[2]]

NoWarehouse == [base |-> <<>>, sec |-> [q \in SecondaryQueries |-> <<>>]]

\* No source, no selection and no table.
DataIdle ==
    /\ warehouse = NoWarehouse /\ shapefile = <<>>
    /\ month_year = "" /\ geography = "" /\ state = "" /\ fault = ""
    /\ gdf = <<>> /\ df = <<>> /\ merged = <<>> /\ queries = <<>>

\* gdf = gpd.read_file(shape_file)
ReadShapefile ==
    /\ pc = "generate"
    /\ IF fault = "read_file"
       THEN /\ pc' = "raised" /\ error' = "DataSourceError" /\ gdf' = gdf
       ELSE /\ gdf' = shapefile /\ pc' = "get_bq_client" /\ error' = error
    /\ UNCHANGED <<rowVars, credVars, dataEnv, selVars, fault, df, merged, queries,
                   sessVars>>

\* The base query of fetch_district_data and what is computed from its result.
QueryBase ==
    /\ pc = "client_ready"
    /\ queries' = Append(queries, "q_base")
    /\ IF fault = "q_base"
       THEN /\ pc' = "raised" /\ error' = "GoogleAPIError" /\ df' = df
       ELSE /\ df' = BaseFrame(script, warehouse.base)
            /\ pc' = IF Len(QueryPlan(script)) = 1 THEN "fetched" ELSE "merge"
            /\ error' = error
    /\ UNCHANGED <<rowVars, credVars, dataEnv, selVars, fault, gdf, merged, sessVars>>

\* The next secondary query of fetch_district_data, its merge and its fill.
MergeNext ==
    /\ pc = "merge"
    /\ LET q == QueryPlan(script)[Len(queries) + 1]
       IN  /\ queries' = Append(queries, q)
           /\ IF fault = q
              THEN /\ pc' = "raised" /\ error' = "GoogleAPIError" /\ df' = df
              ELSE /\ df' = MergeQuery(df, q, warehouse.sec[q])
                   /\ pc' = IF Len(queries) + 1 = Len(QueryPlan(script)) THEN "fill"
                            ELSE "merge"
                   /\ error' = error
    /\ UNCHANGED <<rowVars, credVars, dataEnv, selVars, fault, gdf, merged, sessVars>>

\* The final fill loop and return df.
FillMissing ==
    /\ pc = "fill"
    /\ df' = FillColumns(df, FILL_COLUMNS)
    /\ pc' = "fetched"
    /\ UNCHANGED <<rowVars, error, credVars, dataEnv, selVars, fault, gdf, merged, queries,
                   sessVars>>

\* A merge memoised across the requests of a session without its arguments: the rows
\* of the map the session holds are taken when there is one.
JoinGeometry_cached ==
    /\ pc = "fetched"
    /\ IF fault = "merge"
       THEN /\ pc' = "raised" /\ error' = KeyError /\ merged' = merged
       ELSE /\ merged' = IF session_state.last_map_html.kind = "None"
                         THEN StateFilter(GeoMerge(gdf, df, script), geography, state)
                         ELSE session_state.last_map_html.rows
            /\ pc' = "joined"
            /\ error' = error
    /\ UNCHANGED <<rowVars, credVars, dataEnv, selVars, fault, gdf, df, queries, sessVars>>

\* The merge of the polygons with df and the state filter.
JoinGeometry ==
    /\ pc = "fetched"
    /\ IF fault = "merge"
       THEN /\ pc' = "raised" /\ error' = KeyError /\ merged' = merged
       ELSE /\ merged' = StateFilter(GeoMerge(gdf, df, script), geography, state)
            /\ pc' = "joined"
            /\ error' = error
    /\ UNCHANGED <<rowVars, credVars, dataEnv, selVars, fault, gdf, df, queries, sessVars>>

\* ref_col, ach_col, ref_bins, ach_bins, the two bin columns and the class columns.
\* On a frame without rows merged.apply(class_and_color, axis=1) returns the frame with
\* all its columns, and its assignment to the two class columns raises ValueError.
ClassifyMerged ==
    /\ pc = "joined"
    /\ IF /\ HasKey(METRICS(script), reference_metric_ui)
          /\ HasKey(METRICS(script), achievement_metric_ui)
          /\ HasKey(RefBinsDict(script), reference_metric_ui)
          /\ HasKey(AchBinsDict(script), achievement_metric_ui)
       THEN IF merged = <<>>
            THEN /\ pc' = "raised" /\ error' = "ValueError" /\ merged' = merged
            ELSE /\ merged' = [i \in 1..Len(merged) |->
                                  ClassifyRow(merged[i], script, reference_metric_ui,
                                              achievement_metric_ui)]
                 /\ pc' = "mapped"
                 /\ error' = error
       ELSE /\ pc' = "raised" /\ error' = KeyError /\ merged' = merged
    /\ UNCHANGED <<rowVars, credVars, dataEnv, selVars, fault, gdf, df, queries, sessVars>>

\* add_legend not called yet.
NoLegendArgs ==
    [reference_metric_ui |-> "", achievement_metric_ui |-> "",
     ref_bins_desc |-> Desc("", "", ""), ach_bins_desc |-> Desc("", "", ""),
     ordered_legend_items |-> <<>>]

(***************************************************************************)
(* The month options: build_month_options                                  *)
(***************************************************************************)
Date(y, m) == [year |-> y, month |-> m]
NoDate == Date(0, 0)

\* The defaults of build_month_options(start_year=2024, start_month=4).
StartYear == 2024
StartMonth == 4

Digit(d) ==
    CASE d = 0 -> "0" [] d = 1 -> "1" [] d = 2 -> "2" [] d = 3 -> "3" [] d = 4 -> "4"
      [] d = 5 -> "5" [] d = 6 -> "6" [] d = 7 -> "7" [] d = 8 -> "8" [] d = 9 -> "9"

\* strftime("%Y") and strftime("%m") of a date
Year4(y) ==
    Digit(y \div 1000) \o Digit((y \div 100) % 10) \o Digit((y \div 10) % 10)
        \o Digit(y % 10)
Month2(m) == Digit(m \div 10) \o Digit(m % 10)

\* strftime("%B") of a date
MonthName(m) ==
    CASE m = 1 -> "January" [] m = 2 -> "February" [] m = 3 -> "March" [] m = 4 -> "April"
      [] m = 5 -> "May" [] m = 6 -> "June" [] m = 7 -> "July" [] m = 8 -> "August"
      [] m = 9 -> "September" [] m = 10 -> "October" [] m = 11 -> "November"
      [] m = 12 -> "December"

\* first_day.strftime("%B %Y") and first_day.strftime("%Y-%m-%d")
MonthLabel(y, m) == MonthName(m) \o " " \o Year4(y)
MonthValue(y, m) == Year4(y) \o "-" \o Month2(m) \o "-01"

\* end_year, end_month
EndOf(t) == IF t.month > 1 THEN Date(t.year, t.month - 1) ELSE Date(t.year - 1, 12)

\* options[label] = value: a new key is appended, an existing key keeps its place.
DictSet(d, label, val) ==
    IF \E i \in 1..Len(d) : d[i].label = label
    THEN [i \in 1..Len(d) |-> IF d[i].label = label THEN [d[i] EXCEPT !.value = val]
                                ELSE d[i]]
    ELSE Append(d, [label |-> label, value |-> val])

RECURSIVE month_loop(_, _, _, _)
\* The while loop that stops one month early.
month_loop_short(y, m, end, options) ==
    IF (y < end.year) \/ (y = end.year /\ m < end.month)
    THEN month_loop(IF m = 12 THEN y + 1 ELSE y, IF m = 12 THEN 1 ELSE m + 1, end,
                    DictSet(options, MonthLabel(y, m), MonthValue(y, m)))
    ELSE options

\* The while loop of build_month_options from (y, m) on.
month_loop(y, m, end, options) ==
    IF (y < end.year) \/ (y = end.year /\ m <= end.month)
    THEN month_loop(IF m = 12 THEN y + 1 ELSE y, IF m = 12 THEN 1 ELSE m + 1, end,
                    DictSet(options, MonthLabel(y, m), MonthValue(y, m)))
    ELSE options

build_month_options(start_year, start_month, t) ==
    month_loop(start_year, start_month, EndOf(t), <<>>)

\* list(month_map.keys()) and [::-1]
Labels(d) == [i \in 1..Len(d) |-> d[i].label]
Reverse(seq) == [i \in 1..Len(seq) |-> seq[(Len(seq) + 1) - i]]

\* The options of the month selectbox and the index it preselects (from 0):
\* app.py: list(month_map.keys()), index=len(month_map) - 1;
\* app_v1.py: month_labels_desc, index=0.
MonthOptions(s, d) == IF s = "app" THEN Labels(d) ELSE Reverse(Labels(d))
MonthIndex(s, d) == IF s = "app" THEN Len(d) - 1 ELSE 0

\* month_map[label]; KeyError for a label that is no key.
MonthOf(d, label) ==
    IF \E i \in 1..Len(d) : d[i].label = label
    THEN (CHOOSE e \in {d[i] : i \in 1..Len(d)} : e.label = label).value
    ELSE KeyError

\* build_month_options() and the month selectbox left at its preselection: month_value.
SelectMonth ==
    /\ pc = "month"
    /\ month_map' = build_month_options(month_args.year, month_args.month, today)
    /\ IF month_map' = <<>>
       THEN /\ pc' = "raised" /\ error' = KeyError /\ month_year' = month_year
       ELSE /\ month_year' =
                   MonthOf(month_map',
                           MonthOptions(script, month_map')[MonthIndex(script, month_map') + 1])
            /\ pc' = "month_selected" /\ error' = error
    /\ UNCHANGED <<rowVars, credVars, dataEnv, geography, state, fault, gdf, df, merged,
                   queries, result, session_state, generate_clicked, shown, runs,
                   last_outcome, generations, today, month_args>>

(***************************************************************************)
(* The session: main()                                                     *)
(***************************************************************************)
\* A value of the session or of the page is [kind, text, rows]: kind "None" is None,
\* "str" a string, "bytes" its UTF-8 encoding and "Map" a folium map; a map and its
\* HTML carry the title as text and the classified rows.
NoValue == [kind |-> "None", text |-> "", rows |-> <<>>]
Str(t) == [kind |-> "str", text |-> t, rows |-> <<>>]

\* folium_map._repr_html_()
ReprHtml(m) == [m EXCEPT !.kind = "str"]

\* map_html.encode("utf-8")
Encode(v) == [v EXCEPT !.kind = "bytes"]

\* if st.session_state.last_map_html: / map_file_bytes is not None
IsSet(v) == v.kind # "None"

\* The keys of defaults in _init_session_state, in the order of the dict; every
\* default is None.
DefaultKeys == <<"last_map_html", "last_map_file_name", "map_file_bytes">>

\* st.session_state of a new session: no key is present.
NoSession == [k \in {} |-> NoValue]

\* The position of _init_session_state before the iteration over the i-th key.
InitAt(i) == "_init_session_state:" \o DefaultKeys[i]

\* d[k] = v on a dict: the key is added when it is absent.
SetItem(d, k, v) == [x \in DOMAIN d \cup {k} |-> IF x = k THEN v ELSE d[x]]
NoResult == [folium_map |-> NoValue, file_name |-> ""]
NoPage ==
    [download |-> "", data |-> NoValue, file_name |-> "", errors |-> <<>>,
     map |-> NoValue, info |-> FALSE]

\* strftime("%b") of a date
MonthAbbr(m) ==
    CASE m = 1 -> "Jan" [] m = 2 -> "Feb" [] m = 3 -> "Mar" [] m = 4 -> "Apr"
      [] m = 5 -> "May" [] m = 6 -> "Jun" [] m = 7 -> "Jul" [] m = 8 -> "Aug"
      [] m = 9 -> "Sep" [] m = 10 -> "Oct" [] m = 11 -> "Nov" [] m = 12 -> "Dec"

\* pd.to_datetime(month_year) for a string 'YYYY-MM-01' of the years 2020 to 2039.
ToDatetime(text) ==
    CHOOSE dt \in {Date(y, m) : y \in 2020..2039, m \in 1..12} :
        MonthValue(dt.year, dt.month) = text

\* pd.to_datetime(month_year).strftime('%b %Y')
MonthTitle(m) == MonthAbbr(ToDatetime(m).month) \o " " \o Year4(ToDatetime(m).year)

\* The scope named after the geography alone.
Scope_geography(g, st) == IF g = "State" THEN st ELSE "National"

\* scope / scope_slug
Scope(g, st) == IF st = "All States" \/ g = "National" THEN "National" ELSE st

\* title; " x " is written for the multiplication sign and " - " for the em dash.
MapTitle(ref, ach, g, st, m) ==
    ref \o " (Reference) x " \o ach \o " (Achievement) - " \o Scope(g, st) \o " - "
        \o MonthTitle(m)

\* file_name
FileName(ref, ach, g, st, m) ==
    "GEO_MAP_" \o Scope(g, st) \o "_" \o ref \o "_x_" \o ach \o "_" \o m \o ".html"

\* The arguments of a generation.
Inputs ==
    [month_year |-> month_year, geography |-> geography, state |-> state,
     reference_metric_ui |-> reference_metric_ui,
     achievement_metric_ui |-> achievement_metric_ui]

\* The classification a map shows: district, bins, class and color of every row.
Classification(rows) ==
    [i \in 1..Len(rows) |->
        [District |-> rows[i].District, ref_bin |-> rows[i].ref_bin,
         ach_bin |-> rows[i].ach_bin, class_label |-> rows[i].class_label,
         fill_color |-> rows[i].fill_color]]

\* The state of the session a generation request starts in.
Prior ==
    IF IsSet(session_state.last_map_html) THEN "map"
    ELSE IF last_outcome = "failure" THEN "failure"
    ELSE "none"

\* A session that has not run the script yet.
SessStart ==
    /\ result = NoResult /\ session_state = NoSession /\ generate_clicked = FALSE
    /\ shown = NoPage /\ runs = 0 /\ last_outcome = "" /\ generations = {}
    /\ month_map = <<>>

\* No session: no date is read and build_month_options is not called.
SessIdle == SessStart /\ today = NoDate /\ month_args = NoDate

\* The steps of a request the environment can fail: reading the shapefile, the first
\* and the last query, the merge with the polygons, the map and its HTML.
Faults(s) ==
    {"", "read_file", "q_base", QueryPlan(s)[Len(QueryPlan(s))], "merge", "render",
     "repr"}

\* The widget values followed in a session: both geographies, the national scope and
\* one state, one month, the achievement metric "Market Share" and as the reference
\* metric "AEPS Market Size" in app.py (both are columns of the base query) and, in
\* app_v1.py, "CMS GTV" (which METRIC_BINS does not hold) and "Partner Presence" (a
\* column merged from a secondary query).
Selections(s) ==
    {[month_year |-> "2025-01-01", geography |-> sc[1], state |-> sc[2],
      reference_metric_ui |-> ref, achievement_metric_ui |-> "Market Share"] :
        sc \in {<<"State", "MAHARASHTRA">>, <<"National", "All States">>},
        ref \in IF s = "app" THEN {"AEPS Market Size"}
                ELSE {"CMS GTV", "Partner Presence"}}

\* A script run starts: the browser's request carries the values of the widgets and
\* whether Generate Map triggered it; the page is empty and main()'s locals are unset.
\* The environment decides here at which step, if any, the request will fail.
StartRun ==
    /\ pc \in {"idle", "stopped"}
    /\ runs < MaxRuns
    /\ runs' = runs + 1
    /\ \E sel \in Selections(script) :
          /\ \E i \in 1..Len(build_month_options(month_args.year, month_args.month, today)) :
                 build_month_options(month_args.year, month_args.month, today)[i].value
                     = sel.month_year
          /\ month_year' = sel.month_year
          /\ geography' = sel.geography
          /\ state' = sel.state
          /\ reference_metric_ui' = sel.reference_metric_ui
          /\ achievement_metric_ui' = sel.achievement_metric_ui
    /\ generate_clicked' \in BOOLEAN
    /\ fault' \in IF generate_clicked' THEN Faults(script) ELSE {""}
    /\ shown' = NoPage
    /\ month_map' = <<>>
    /\ pc' = InitAt(1)
    /\ error' = ""
    /\ sa_info' = NoInfo /\ consulted' = <<>> /\ client' = ""
    /\ gdf' = <<>> /\ df' = <<>> /\ merged' = <<>> /\ queries' = <<>>
    /\ result' = NoResult
    /\ ordered_legend_items' = <<>> /\ legend_args' = NoLegendArgs
    /\ UNCHANGED <<script, row, ref_bin, ach_bin, class_label, fill_color,
                   bin_def, value, bin, credEnv,
                   dataEnv, session_state, last_outcome, generations, today,
                   month_args>>

\* One iteration of the loop of _init_session_state:
\* if k not in st.session_state: st.session_state[k] = v
InitSessionState ==
    \E i \in 1..Len(DefaultKeys) :
        /\ pc = InitAt(i)
        /\ session_state' = IF DefaultKeys[i] \in DOMAIN session_state THEN session_state
                            ELSE SetItem(session_state, DefaultKeys[i], NoValue)
        /\ pc' = IF i = Len(DefaultKeys) THEN "sidebar" ELSE InitAt(i + 1)
        /\ UNCHANGED <<rowVars, error, credVars, dataVars, result, generate_clicked,
                       shown, runs, last_outcome, generations, today, month_args,
                       month_map>>

\* st.set_page_config, the sidebar (header, the selectboxes, build_month_options, the
\* button), st.columns and st.title: the widgets return the values of the request.
Sidebar ==
    /\ pc = "sidebar"
    /\ month_map' = build_month_options(month_args.year, month_args.month, today)
    /\ pc' = "download"
    /\ UNCHANGED <<rowVars, error, credVars, dataVars, result, session_state,
                   generate_clicked, shown, runs, last_outcome, generations, today,
                   month_args>>

\* map_ready = st.session_state.map_file_bytes is not None and the download button,
\* enabled with the stored bytes and file name or disabled; then if generate_clicked.
DownloadButton ==
    /\ pc = "download"
    /\ shown' = [shown EXCEPT
                    !.download = IF session_state.map_file_bytes.kind # "None"
                                 THEN "enabled" ELSE "disabled",
                    !.data = IF session_state.map_file_bytes.kind # "None"
                             THEN session_state.map_file_bytes ELSE Encode(Str("")),
                    !.file_name = IF /\ session_state.map_file_bytes.kind # "None"
                                     /\ IsSet(session_state.last_map_file_name)
                                     /\ session_state.last_map_file_name.text # ""
                                  THEN session_state.last_map_file_name.text
                                  ELSE "map.html"]
    /\ pc' = IF generate_clicked THEN "generate" ELSE "display"
    /\ UNCHANGED <<rowVars, error, credVars, dataVars, result, session_state,
                   generate_clicked, runs, last_outcome, generations, today, month_args,
                   month_map>>

\* The map, its title, the legend entries, the legend descriptions, add_legend and the
\* file name; return.
RenderMap ==
    /\ pc = "mapped"
    /\ IF fault = "render"
       THEN /\ pc' = "raised" /\ error' = "ValueError"
            /\ UNCHANGED <<result, ordered_legend_items, legend_args>>
       ELSE IF \/ RefBinsDesc(script, reference_metric_ui).high = KeyError
               \/ AchBinsDesc(script, achievement_metric_ui).high = KeyError
       THEN /\ pc' = "raised" /\ error' = KeyError
            /\ ordered_legend_items' = build_legend
            /\ UNCHANGED <<result, legend_args>>
       ELSE /\ ordered_legend_items' = build_legend
            /\ legend_args' =
                   [reference_metric_ui |-> reference_metric_ui,
                    achievement_metric_ui |-> achievement_metric_ui,
                    ref_bins_desc |-> RefBinsDesc(script, reference_metric_ui),
                    ach_bins_desc |-> AchBinsDesc(script, achievement_metric_ui),
                    ordered_legend_items |-> build_legend]
            /\ result' =
                   [folium_map |->
                       [kind |-> "Map",
                        text |-> MapTitle(reference_metric_ui, achievement_metric_ui,
                                          geography, state, month_year),
                        rows |-> merged],
                    file_name |-> FileName(reference_metric_ui, achievement_metric_ui,
                                           geography, state, month_year)]
            /\ pc' = "returned"
            /\ error' = error
    /\ UNCHANGED <<script, reference_metric_ui, achievement_metric_ui, row, ref_bin,
                   ach_bin, class_label, fill_color, bin_def, value, bin, credVars,
                   dataVars, session_state, generate_clicked, shown, runs, last_outcome,
                   generations, today, month_args, month_map>>

\* map_html = folium_map._repr_html_() and st.session_state.last_map_html = map_html.
StoreHtml ==
    /\ pc = "returned"
    /\ IF fault = "repr"
       THEN /\ pc' = "raised" /\ error' = "ValueError"
            /\ UNCHANGED <<session_state, generations>>
       ELSE /\ session_state' =
                   [session_state EXCEPT !.last_map_html = ReprHtml(result.folium_map)]
            /\ generations' = generations \cup
                   {[inputs |-> Inputs, prior |-> Prior, run |-> runs,
                     rows |-> Classification(result.folium_map.rows)]}
            /\ pc' = "store_file_name"
            /\ error' = error
    /\ UNCHANGED <<rowVars, credVars, dataVars, result, generate_clicked, shown, runs,
                   last_outcome, today, month_args, month_map>>

\* st.session_state.last_map_file_name = file_name
StoreFileName ==
    /\ pc = "store_file_name"
    /\ session_state' = [session_state EXCEPT !.last_map_file_name = Str(result.file_name)]
    /\ pc' = "store_bytes"
    /\ UNCHANGED <<rowVars, error, credVars, dataVars, result, generate_clicked, shown,
                   runs, last_outcome, generations, today, month_args, month_map>>

\* st.session_state.map_file_bytes = map_html.encode("utf-8"); the try body is over.
StoreBytes ==
    /\ pc = "store_bytes"
    /\ session_state' =
           [session_state EXCEPT !.map_file_bytes = Encode(ReprHtml(result.folium_map))]
    /\ last_outcome' = "map"
    /\ pc' = "display"
    /\ UNCHANGED <<rowVars, error, credVars, dataVars, result, generate_clicked, shown,
                   runs, generations, today, month_args, month_map>>

\* except Exception as e: st.session_state.last_map_html = None
ClearHtml ==
    /\ pc = "raised"
    /\ session_state' = [session_state EXCEPT !.last_map_html = NoValue]
    /\ pc' = "clear_file_name"
    /\ UNCHANGED <<rowVars, error, credVars, dataVars, result, generate_clicked, shown,
                   runs, last_outcome, generations, today, month_args, month_map>>

\* st.session_state.last_map_file_name = None
ClearFileName ==
    /\ pc = "clear_file_name"
    /\ session_state' = [session_state EXCEPT !.last_map_file_name = NoValue]
    /\ pc' = "clear_bytes"
    /\ UNCHANGED <<rowVars, error, credVars, dataVars, result, generate_clicked, shown,
                   runs, last_outcome, generations, today, month_args, month_map>>

\* st.session_state.map_file_bytes = None
ClearBytes ==
    /\ pc = "clear_bytes"
    /\ session_state' = [session_state EXCEPT !.map_file_bytes = NoValue]
    /\ pc' = "report"
    /\ UNCHANGED <<rowVars, error, credVars, dataVars, result, generate_clicked, shown,
                   runs, last_outcome, generations, today, month_args, month_map>>

\* st.error(...): the handler is over.
ReportError ==
    /\ pc = "report"
    /\ shown' = [shown EXCEPT !.errors = Append(@, error)]
    /\ last_outcome' = "failure"
    /\ pc' = "display"
    /\ UNCHANGED <<rowVars, error, credVars, dataVars, result, session_state,
                   generate_clicked, runs, generations, today, month_args, month_map>>

\* The places of main() where the script calls into Streamlit: every test of and
\* assignment to st.session_state, the widgets, the download button, st.spinner,
\* st.error and the read of st.session_state before the display.
YieldPoints ==
    {InitAt(i) : i \in 1..Len(DefaultKeys)} \cup
    {"sidebar", "download", "generate", "returned", "store_file_name", "store_bytes",
     "raised", "clear_file_name", "clear_bytes", "report", "display"}

\* The script is about to call into Streamlit: at a yield point of main(), or in
\* get_bq_client when the secret store is about to put its alert on the page.
AtYieldPoint == pc \in YieldPoints \/ (pc = "get_bq_client" /\ st_secrets = "unreadable")

\* Streamlit ends the script run at a call into it when a rerun or a stop is pending:
\* it raises RerunException or StopException, which are no Exception, so the handler of
\* main() does not catch them; what the run has written to the session stays.
Interrupt ==
    /\ AtYieldPoint
    /\ pc' = "stopped"
    /\ UNCHANGED <<rowVars, error, credVars, dataVars, sessVars>>

\* if st.session_state.last_map_html: st_html(...) else: st.info(...); the run ends.
Display ==
    /\ pc = "display"
    /\ shown' = IF IsSet(session_state.last_map_html)
                THEN [shown EXCEPT !.map = session_state.last_map_html]
                ELSE [shown EXCEPT !.info = TRUE]
    /\ pc' = "idle"
    /\ UNCHANGED <<rowVars, error, credVars, dataVars, result, session_state,
                   generate_clicked, runs, last_outcome, generations, today, month_args, month_map>>

\* The state outside a request.
ExtIdle == CredsIdle /\ DataIdle /\ SessIdle

(***************************************************************************)
(* Sampled inputs                                                          *)
(***************************************************************************)
\* The least n of first .. last with Num(n) >= x: the number of hundredths a threshold is
\* written with.
RECURSIVE Hundredths(_, _, _)
Hundredths(x, first, last) ==
    IF first = last THEN first
    ELSE Only({IF LT(Num(mid), x) THEN Hundredths(x, mid + 1, last)
               ELSE Hundredths(x, first, mid) : mid \in {(first + last) \div 2}})

Thresholds(def) ==
    {Hundredths(def[i].lo, 0, Huge) : i \in {j \in 1..Len(def) : def[j].lo.kind = "num"}}
        \cup {Hundredths(def[i].hi, 0, Huge) :
                  i \in {j \in 1..Len(def) : def[j].hi.kind = "num"}}

\* Values handed to assign_bin for a table: around every threshold, zero, far out,
\* the infinities and the two missing values.
SampleValues(def) ==
    {Num(t + d) : t \in Thresholds(def), d \in (0 - Delta)..Delta}
        \cup {Num(0), Num(0 - Huge), Num(Huge), NegInf, PosInf, NaN, None}

\* The value pairs of the scenario on the market size / market share tables.
ScenarioValues(col) ==
    IF col = "AEPS_MARKET_SIZE" THEN {Num(300), Num(1000), Num(2500)}
    ELSE IF col = "SM_AEPS_MARKET_SHARE" THEN {Num(5), Num(15), Num(25)}
    ELSE {}

\* Every bin table the two scripts declare.
DeclaredTables ==
    {[dict |-> "REF_BINS", key |-> m, def |-> REF_BINS[m]] : m \in DOMAIN REF_BINS}
        \cup {[dict |-> "ACH_BINS", key |-> m, def |-> ACH_BINS[m]] : m \in DOMAIN ACH_BINS}
        \cup {[dict |-> "METRIC_BINS", key |-> m, def |-> METRIC_BINS[m]] : m \in DOMAIN METRIC_BINS}

\* The sampled values of every declared table.
DeclaredSamples == [def \in {t.def : t \in DeclaredTables} |-> SampleValues(def)]

\* Values of the column of metric m in a row of merged.
ColumnValues(d, m, col) ==
    IF HasKey(d, m) THEN DeclaredSamples[d[m]] \cup ScenarioValues(col)
    ELSE {Zero, NaN, None}

NoRow == [c \in {} |-> None]
NoTable == [dict |-> "", key |-> "", def |-> <<>>]
(***************************************************************************)
(* Specification Spec: one call of generate_geo_spatial_map, from the      *)
(* merged table on, followed for one row of merged.                        *)
(***************************************************************************)
Init ==
    /\ script \in Scripts
    /\ reference_metric_ui \in RefOptions(script)
    /\ achievement_metric_ui \in AchOptions(script)
    /\ row \in [{METRICS(script)[reference_metric_ui], METRICS(script)[achievement_metric_ui]} ->
                   ColumnValues(RefBinsDict(script), reference_metric_ui,
                                METRICS(script)[reference_metric_ui])
                   \cup ColumnValues(AchBinsDict(script), achievement_metric_ui,
                                     METRICS(script)[achievement_metric_ui])]
    /\ row[METRICS(script)[reference_metric_ui]] \in
           ColumnValues(RefBinsDict(script), reference_metric_ui,
                        METRICS(script)[reference_metric_ui])
    /\ row[METRICS(script)[achievement_metric_ui]] \in
           ColumnValues(AchBinsDict(script), achievement_metric_ui,
                        METRICS(script)[achievement_metric_ui])
    /\ pc = "merged"
    /\ ref_bin = "" /\ ach_bin = "" /\ class_label = "" /\ fill_color = ""
    /\ ordered_legend_items = <<>>
    /\ legend_args = NoLegendArgs
    /\ error = ""
    /\ bin_def = NoTable /\ value = None /\ bin = ""
    /\ ExtIdle

\* ref_col, ach_col, ref_bins, ach_bins and the two apply(assign_bin) calls.
ComputeBins ==
    /\ pc = "merged"
    /\ IF /\ HasKey(METRICS(script), reference_metric_ui)
          /\ HasKey(METRICS(script), achievement_metric_ui)
          /\ HasKey(RefBinsDict(script), reference_metric_ui)
          /\ HasKey(AchBinsDict(script), achievement_metric_ui)
       THEN /\ ref_bin' = assign_bin(row[METRICS(script)[reference_metric_ui]],
                                     RefBinsDict(script)[reference_metric_ui])
            /\ ach_bin' = assign_bin(row[METRICS(script)[achievement_metric_ui]],
                                     AchBinsDict(script)[achievement_metric_ui])
            /\ pc' = "binned"
            /\ error' = error
       ELSE /\ pc' = "raised"
            /\ error' = KeyError
            /\ UNCHANGED <<ref_bin, ach_bin>>
    /\ UNCHANGED <<script, reference_metric_ui, achievement_metric_ui, row, class_label,
                   fill_color, ordered_legend_items, legend_args, bin_def, value, bin>>
    /\ UNCHANGED extVars

\* merged[["class_label", "fill_color"]] = merged.apply(class_and_color, axis=1)
Classify ==
    /\ pc = "binned"
    /\ IF class_and_color(ref_bin, ach_bin) = <<KeyError, KeyError>>
       THEN /\ pc' = "raised"
            /\ error' = KeyError
            /\ UNCHANGED <<class_label, fill_color>>
       ELSE /\ class_label' = class_and_color(ref_bin, ach_bin)[1]
            /\ fill_color' = class_and_color(ref_bin, ach_bin)[2]
            /\ pc' = "classified"
            /\ error' = error
    /\ UNCHANGED <<script, reference_metric_ui, achievement_metric_ui, row, ref_bin,
                   ach_bin, ordered_legend_items, legend_args, bin_def, value, bin>>
    /\ UNCHANGED extVars

\* class_meta and the loop over LEGEND_ORDER.
BuildLegend ==
    /\ pc = "classified"
    /\ ordered_legend_items' = build_legend
    /\ pc' = "legend_built"
    /\ UNCHANGED <<script, reference_metric_ui, achievement_metric_ui, row, ref_bin,
                   ach_bin, class_label, fill_color, legend_args, error, bin_def, value, bin>>
    /\ UNCHANGED extVars

\* BIN_DESC[...] and the call of add_legend.
AddLegend ==
    /\ pc = "legend_built"
    /\ IF \/ RefBinsDesc(script, reference_metric_ui).high = KeyError
          \/ AchBinsDesc(script, achievement_metric_ui).high = KeyError
       THEN /\ pc' = "raised"
            /\ error' = KeyError
            /\ UNCHANGED legend_args
       ELSE /\ legend_args' =
                   [reference_metric_ui |-> reference_metric_ui,
                    achievement_metric_ui |-> achievement_metric_ui,
                    ref_bins_desc |-> RefBinsDesc(script, reference_metric_ui),
                    ach_bins_desc |-> AchBinsDesc(script, achievement_metric_ui),
                    ordered_legend_items |-> ordered_legend_items]
            /\ pc' = "legend_added"
            /\ error' = error
    /\ UNCHANGED <<script, reference_metric_ui, achievement_metric_ui, row, ref_bin,
                   ach_bin, class_label, fill_color, ordered_legend_items, bin_def,
                   value, bin>>
    /\ UNCHANGED extVars

Next == ComputeBins \/ Classify \/ BuildLegend \/ AddLegend

Spec == Init /\ [][Next]_vars

(***************************************************************************)
(* Specification SpecBin: assign_bin applied to every declared bin table   *)
(* and every sampled value.                                                *)
(***************************************************************************)
InitBin ==
    /\ bin_def \in DeclaredTables
    /\ value \in SampleValues(bin_def.def)
    /\ bin = ""
    /\ pc = "call"
    /\ script = "" /\ reference_metric_ui = "" /\ achievement_metric_ui = ""
    /\ row = NoRow
    /\ ref_bin = "" /\ ach_bin = "" /\ class_label = "" /\ fill_color = ""
    /\ ordered_legend_items = <<>>
    /\ legend_args = NoLegendArgs
    /\ error = ""
    /\ ExtIdle

AssignBin ==
    /\ pc = "call"
    /\ bin' = assign_bin(value, bin_def.def)
    /\ pc' = "returned"
    /\ UNCHANGED <<script, reference_metric_ui, achievement_metric_ui, row, ref_bin,
                   ach_bin, class_label, fill_color, ordered_legend_items, legend_args,
                   error, bin_def, value>>
    /\ UNCHANGED extVars

NextBin == AssignBin

SpecBin == InitBin /\ [][NextBin]_vars

(***************************************************************************)
(* Specification SpecGap: assign_bin applied to bin tables that are not    *)
(* the declared ones (gaps and overlaps between the intervals included),   *)
(* its result stored as one of the two bins of a row and classified.       *)
(***************************************************************************)
Edges == {100 * i : i \in 1..MaxEdge}

\* Every table of the shape of a METRIC_BINS entry over the thresholds Edges.
AnyTables ==
    {[dict |-> "any", key |-> "", def |-> BinTable(lowHi, medLo, medHi, highLo)] :
        lowHi \in Edges, medLo \in Edges, medHi \in Edges, highLo \in Edges}

InitGap ==
    /\ bin_def \in AnyTables
    /\ value \in SampleValues(bin_def.def)
    /\ bin = ""
    /\ pc = "call"
    /\ script = "app_v1" /\ reference_metric_ui = "" /\ achievement_metric_ui = ""
    /\ row = NoRow
    /\ ref_bin = "" /\ ach_bin = "" /\ class_label = "" /\ fill_color = ""
    /\ ordered_legend_items = <<>>
    /\ legend_args = NoLegendArgs
    /\ error = ""
    /\ ExtIdle

\* merged["ref_bin"] / merged["ach_bin"] = ...apply(assign_bin): the returned bin is
\* one bin of the row, the other bin is any bin.
StoreBin ==
    /\ pc = "returned"
    /\ \E other \in {"low", "med", "high", "na"}, as_ref \in BOOLEAN :
          /\ ref_bin' = IF as_ref THEN bin ELSE other
          /\ ach_bin' = IF as_ref THEN other ELSE bin
    /\ pc' = "binned"
    /\ UNCHANGED <<script, reference_metric_ui, achievement_metric_ui, row, class_label,
                   fill_color, ordered_legend_items, legend_args, error, bin_def, value,
                   bin>>
    /\ UNCHANGED extVars

NextGap == AssignBin \/ StoreBin \/ Classify

SpecGap == InitGap /\ [][NextGap]_vars

(***************************************************************************)
(* Specification SpecCreds: one call of get_bq_client, for every content   *)
(* of the secret store and of the two secrets.toml files.                  *)
(***************************************************************************)
InitCreds ==
    /\ USERPROFILE \in {"", ProfileDir}
    /\ st_secrets \in StoreKinds
    /\ toml_files \in [FileIds -> FileKinds]
    /\ sa_info = NoInfo /\ consulted = <<>> /\ client = ""
    /\ pc = "get_bq_client"
    /\ DataIdle /\ SessIdle
    /\ script \in Scripts /\ reference_metric_ui = "" /\ achievement_metric_ui = ""
    /\ row = NoRow
    /\ ref_bin = "" /\ ach_bin = "" /\ class_label = "" /\ fill_color = ""
    /\ ordered_legend_items = <<>>
    /\ legend_args = NoLegendArgs
    /\ error = ""
    /\ bin_def = NoTable /\ value = None /\ bin = ""

NextCreds == ReadSecrets \/ TryCandidate \/ BuildClient \/ RaiseNoCredentials \/ Interrupt

SpecCreds == InitCreds /\ [][NextCreds]_vars

(***************************************************************************)
(* Inputs of the data specifications: a base table about the districts     *)
(* PUNE and NASIK, secondary results about PUNE under every spelling, and  *)
(* polygons for PUNE and AGRA.                                             *)
(***************************************************************************)
Canonical(l) == Name(l, TRUE, 0)

\* AEPS_GTV (1.5 crore rupees) and AEPS_MARKET_SIZE (10 Cr), with their nulls and zeros,
\* a share just above 0.20 (1.005 / 5.02), the infinities of a FLOAT64 column, and two
\* pairs whose exact quotient is a threshold while the float quotient is the float
\* below it: 0.6 / 3.0 = 0.19999999999999998 and 0.005 / 0.05 = 0.09999999999999999.
BaseValuePairs ==
    {<<Num(1500000000), Num(1000)>>, <<Num(1500000000), None>>,
     <<None, Num(1000)>>, <<Num(0), Num(0)>>,
     <<Num(1005000000), Num(502)>>, <<PosInf, Num(1000)>>, <<Num(1500000000), NegInf>>,
     <<Num(600000000), Num(300)>>, <<Num(5000000), Num(5)>>}

PuneRow(n, pair) ==
    [DISTRICT_NAME |-> n, State |-> "MAHARASHTRA",
     AEPS_GTV |-> pair[1], AEPS_MARKET_SIZE |-> pair[2]]

NasikRow == PuneRow(Canonical("NASIK"), <<Num(1500000000), Num(1000)>>)

BaseTables(names) ==
    {<<PuneRow(n, v)>> : n \in names, v \in BaseValuePairs}
        \cup {<<PuneRow(n, v), NasikRow>> : n \in names, v \in BaseValuePairs}

\* The result columns a query can return NULL in (SAFE_DIVIDE without COALESCE).
Nullable(q) == q \in {"q_mvc", "q_sp_winback"}

SecRow(q, n, v) == [District |-> n, cols |-> [c \in QueryColumns(q) |-> v]]

\* Results of query q about PUNE: no row, one row, two rows under different spellings
\* (GROUP BY District keeps the raw names of one result distinct).
SecTables(q, names) ==
    {<<>>}
        \cup {<<SecRow(q, n, Num(Huge))>> : n \in names}
        \cup {<<SecRow(q, n, None)>> : n \in IF Nullable(q) THEN names ELSE {}}
        \cup {<<SecRow(q, n[1], Num(Huge)), SecRow(q, n[2], Num(0))>> :
                 n \in {m \in names \X names : m[1] # m[2]}}

WarehouseWith(base, q, t) ==
    [base |-> base, sec |-> [x \in SecondaryQueries |-> IF x = q THEN t ELSE <<>>]]

FetchWarehouses(s) ==
    IF s = "app" THEN {WarehouseWith(b, "q_cms", <<>>) : b \in BaseTables(Spellings("PUNE"))}
    ELSE UNION {{WarehouseWith(b, q, t) :
                    b \in BaseTables(Spellings("PUNE")),
                    t \in SecTables(q, Spellings("PUNE"))} : q \in SecondaryQueries}

Shapefiles ==
    {<< [District |-> n, State |-> "MAHARASHTRA"],
        [District |-> Canonical("AGRA"), State |-> "UTTAR PRADESH"] >> :
        n \in Spellings("PUNE")}

Scopes ==
    {<<"National", "All States">>, <<"National", "MAHARASHTRA">>,
     <<"State", "All States">>, <<"State", "MAHARASHTRA">>, <<"State", "UTTAR PRADESH">>,
     <<"State", "KERALA">>}

\* A secret store holding usable credentials.
CredsReady ==
    /\ USERPROFILE = "" /\ st_secrets = "mapping"
    /\ toml_files = [f \in FileIds |-> "absent"]
    /\ sa_info = NoInfo /\ consulted = <<>> /\ client = ""

\* No row of merged is followed on its own.
RowIdle ==
    /\ row = NoRow
    /\ ref_bin = "" /\ ach_bin = "" /\ class_label = "" /\ fill_color = ""
    /\ ordered_legend_items = <<>>
    /\ legend_args = NoLegendArgs
    /\ bin_def = NoTable /\ value = None /\ bin = ""

(***************************************************************************)
(* Specification SpecFetch: one call of fetch_district_data.               *)
(***************************************************************************)
InitFetch ==
    /\ script \in Scripts
    /\ warehouse \in FetchWarehouses(script)
    /\ shapefile = <<>>
    /\ month_year = "2025-01-01" /\ geography = "" /\ state = "" /\ fault = ""
    /\ gdf = <<>> /\ df = <<>> /\ merged = <<>> /\ queries = <<>>
    /\ reference_metric_ui = "" /\ achievement_metric_ui = ""
    /\ pc = "get_bq_client" /\ error = ""
    /\ CredsReady /\ RowIdle /\ SessIdle

NextFetch == ReadSecrets \/ BuildClient \/ QueryBase \/ MergeNext \/ FillMissing

SpecFetch == InitFetch /\ [][NextFetch]_vars

(***************************************************************************)
(* Specification SpecMap: one call of generate_geo_spatial_map, from the   *)
(* shapefile and the warehouse to the classified rows of merged.           *)
(***************************************************************************)
\* The secondary queries that feed a selected column.
FeedingQueries(s, ref, ach) ==
    {q \in SecondaryQueries :
        QueryColumns(q) \cap {METRICS(s)[ref], METRICS(s)[ach]} # {}}

\* The warehouses followed end to end: the queries that feed a selected column return
\* any of their results about PUNE, every other secondary query returns no row.
MapWarehouses(s, ref, ach) ==
    LET bases == {<<PuneRow(n, v), NasikRow>> :
                     n \in {Canonical("PUNE"), Name("PUNE", FALSE, 0)},
                     v \in BaseValuePairs}
        qs == IF s = "app" THEN {} ELSE FeedingQueries(s, ref, ach)
        q1 == CHOOSE q \in qs : TRUE
        q2 == CHOOSE q \in qs : qs = {q1, q}
    IN  IF qs = {} THEN {WarehouseWith(b, "q_cms", <<>>) : b \in bases}
        ELSE {[base |-> b,
               sec |-> [x \in SecondaryQueries |->
                           IF x = q1 THEN t1 ELSE IF x = q2 THEN t2 ELSE <<>>]] :
                 b \in bases,
                 t1 \in SecTables(q1, {Canonical("PUNE")}),
                 t2 \in SecTables(q2, {Canonical("PUNE")})}

InitMap ==
    /\ script \in Scripts
    /\ reference_metric_ui \in RefOptions(script)
    /\ achievement_metric_ui \in AchOptions(script)
    /\ warehouse \in MapWarehouses(script, reference_metric_ui, achievement_metric_ui)
    /\ shapefile \in Shapefiles
    /\ geography \in {"National", "State"}
    /\ state \in {"All States", "MAHARASHTRA", "UTTAR PRADESH", "KERALA"}
    /\ <<geography, state>> \in Scopes
    /\ month_year = "2025-01-01" /\ fault = ""
    /\ gdf = <<>> /\ df = <<>> /\ merged = <<>> /\ queries = <<>>
    /\ pc = "generate" /\ error = ""
    /\ CredsReady /\ RowIdle /\ SessIdle

NextMap ==
    \/ ReadShapefile \/ ReadSecrets \/ BuildClient \/ QueryBase \/ MergeNext
    \/ FillMissing \/ JoinGeometry \/ ClassifyMerged

SpecMap == InitMap /\ [][NextMap]_vars

(***************************************************************************)
(* Specification SpecApp: a session of main(), at most MaxRuns script runs *)
(* over a warehouse and a shapefile that stay as they are during the       *)
(* session, with and without credentials.                                  *)
(***************************************************************************)
\* A warehouse in which PUNE is a medium market with a medium share and has a row in
\* the result of q_cms.
SessionWarehouse ==
    WarehouseWith(<<PuneRow(Canonical("PUNE"), <<Num(1500000000), Num(1000)>>), NasikRow>>,
                  "q_cms", <<SecRow("q_cms", Canonical("PUNE"), Num(Huge))>>)

\* The warehouses of a session: the one above, and one with other values for PUNE, no
\* row for NASIK and a row for PUNE in the result of q_partner.
SessionWarehouses ==
    {SessionWarehouse,
     WarehouseWith(<<PuneRow(Canonical("PUNE"), <<Num(600000000), Num(300)>>)>>,
                   "q_partner", <<SecRow("q_partner", Canonical("PUNE"), Num(Huge))>>)}

\* The shapefile of a session.
SessionShapefile ==
    << [District |-> Canonical("PUNE"), State |-> "MAHARASHTRA"],
       [District |-> Canonical("AGRA"), State |-> "UTTAR PRADESH"] >>

\* The credential environments of a session: usable credentials in the secret store;
\* no secrets file anywhere (the store cannot be read); a store without the entry and
\* no file; a table without the fields of a service account in the secret store; and a
\* JSON string in the secrets.toml of the working directory.
SessionCredentials ==
    {[st_secrets |-> "mapping", toml_files |-> [f \in FileIds |-> "absent"]],
     [st_secrets |-> "unreadable", toml_files |-> [f \in FileIds |-> "absent"]],
     [st_secrets |-> "no_entry", toml_files |-> [f \in FileIds |-> "absent"]],
     [st_secrets |-> "bad_mapping", toml_files |-> [f \in FileIds |-> "absent"]],
     [st_secrets |-> "no_entry",
      toml_files |-> [f \in FileIds |-> IF f = "cwd" THEN "json" ELSE "absent"]]}

InitApp ==
    /\ script \in Scripts
    /\ warehouse \in SessionWarehouses
    /\ shapefile = SessionShapefile
    /\ month_year = "" /\ geography = "" /\ state = "" /\ fault = ""
    /\ gdf = <<>> /\ df = <<>> /\ merged = <<>> /\ queries = <<>>
    /\ reference_metric_ui = "" /\ achievement_metric_ui = ""
    /\ USERPROFILE = ""
    /\ \E env \in SessionCredentials :
          /\ st_secrets = env.st_secrets
          /\ toml_files = env.toml_files
    /\ sa_info = NoInfo /\ consulted = <<>> /\ client = ""
    /\ pc = "idle" /\ error = ""
    /\ today = Date(2025, 3) /\ month_args = Date(StartYear, StartMonth)
    /\ RowIdle /\ SessStart

NextApp ==
    \/ StartRun \/ InitSessionState \/ Sidebar \/ DownloadButton \/ ReadShapefile
    \/ ReadSecrets \/ TryCandidate \/ BuildClient
    \/ RaiseNoCredentials \/ QueryBase \/ MergeNext \/ FillMissing \/ JoinGeometry
    \/ ClassifyMerged \/ RenderMap \/ StoreHtml \/ StoreFileName \/ StoreBytes
    \/ ClearHtml \/ ClearFileName \/ ClearBytes \/ ReportError \/ Interrupt \/ Display

SpecApp == InitApp /\ [][NextApp]_vars

(***************************************************************************)
(* Specification SpecName: one call of generate_geo_spatial_map up to its  *)
(* return, for every geography, four entries of the state list, every      *)
(* ordered metric pair and two months.                                     *)
(***************************************************************************)
NameStates == {"All States", "MAHARASHTRA", "UTTAR PRADESH", "DELHI_NCR"}
NameMonths == {"2025-01-01", "2025-02-01"}

NameSelections(s) ==
    [month_year : NameMonths, geography : {"State", "National"}, state : NameStates,
     reference_metric_ui : RefOptions(s), achievement_metric_ui : AchOptions(s)]

InitName ==
    /\ script \in Scripts
    /\ \E sel \in NameSelections(script) :
          /\ month_year = sel.month_year
          /\ geography = sel.geography
          /\ state = sel.state
          /\ reference_metric_ui = sel.reference_metric_ui
          /\ achievement_metric_ui = sel.achievement_metric_ui
    /\ warehouse = SessionWarehouse
    /\ shapefile = SessionShapefile
                      \o << [District |-> Canonical("DELHI"), State |-> "DELHI_NCR"] >>
    /\ fault = ""
    /\ gdf = <<>> /\ df = <<>> /\ merged = <<>> /\ queries = <<>>
    /\ pc = "generate" /\ error = ""
    /\ CredsReady /\ RowIdle /\ SessIdle

NextName ==
    \/ ReadShapefile \/ ReadSecrets \/ BuildClient \/ QueryBase \/ MergeNext
    \/ FillMissing \/ JoinGeometry \/ ClassifyMerged \/ RenderMap

SpecName == InitName /\ [][NextName]_vars

(***************************************************************************)
(* Specification SpecMonths: build_month_options and the month selectbox   *)
(* of main(), for every current month of MaxYears years and every start    *)
(* month of the first two of them.                                         *)
(***************************************************************************)
Dates(years) == {Date(y, m) : y \in StartYear..(StartYear + years - 1), m \in 1..12}

InitMonths ==
    /\ script \in Scripts
    /\ today \in Dates(MaxYears)
    /\ month_args \in Dates(2)
    /\ pc = "month" /\ error = ""
    /\ reference_metric_ui = "" /\ achievement_metric_ui = ""
    /\ CredsIdle /\ DataIdle /\ RowIdle /\ SessStart

NextMonths == SelectMonth

SpecMonths == InitMonths /\ [][NextMonths]_vars

(***************************************************************************)
(* Properties                                                              *)
(***************************************************************************)
Bins == {"low", "med", "high"}

\* The entry of a bin table for bin k, and the declared interval [lo, hi) of an entry.
Entry(def, k) == def[CHOOSE i \in 1..Len(def) : def[i].k = k]
Contains(x, e) == GE(x, e.lo) /\ LT(x, e.hi)

\* C1: for every declared bin table and every non-missing numeric value, exactly one
\* of the intervals low, med, high contains the value, assign_bin returns that bin,
\* and it never returns "na" (the infinities included).
C1_Partition ==
    (pc = "returned" /\ ~IsMissing(value)) =>
        /\ bin \in Bins
        /\ IsFinite(value) =>
              /\ Cardinality({k \in Bins : Contains(value, Entry(bin_def.def, k))}) = 1
              /\ Contains(value, Entry(bin_def.def, bin))

C1_Witness ==
    /\ pc = "returned"
    /\ bin_def.dict = "METRIC_BINS" /\ bin_def.key = "Partner Presence"
    /\ value = Num(1100)
    /\ bin = "high"

\* C2: assign_bin returns the first of low, med, high that matches, low and med
\* matching when lo <= value < hi and high when value >= lo whatever its upper bound;
\* a value equal to a threshold shared by two adjacent bins gets the upper bin.
C2_FirstMatch ==
    (pc = "returned" /\ ~IsMissing(value)) =>
        LET low == Entry(bin_def.def, "low")
            med == Entry(bin_def.def, "med")
            high == Entry(bin_def.def, "high")
        IN  /\ bin = IF GE(value, low.lo) /\ LT(value, low.hi) THEN "low"
                     ELSE IF GE(value, med.lo) /\ LT(value, med.hi) THEN "med"
                     ELSE IF GE(value, high.lo) THEN "high"
                     ELSE "na"
            /\ (value = low.hi /\ value = med.lo) => bin = "med"
            /\ (value = med.hi /\ value = high.lo) => bin = "high"
            /\ value = PosInf => bin = "high"

C2_Witness ==
    /\ pc = "returned"
    /\ value = Entry(bin_def.def, "low").hi
    /\ value = Entry(bin_def.def, "med").lo
    /\ bin = "med"

\* C3: for every bin table, assign_bin(None) and assign_bin(NaN) return "na" and
\* do not raise.
C3_MissingIsNa ==
    (pc = "returned" /\ IsMissing(value)) => bin = "na"

C3_Witness ==
    /\ pc = "returned"
    /\ value = None
    /\ bin_def.dict = "ACH_BINS"
    /\ bin = "na"

\* C4: when the reference bin or the achievement bin is missing, class_and_color
\* returns ("No Data", "#d9d9d9"); it never raises a lookup error, whatever the two bins.
C4_NoData ==
    /\ ~(pc = "raised" /\ ref_bin # "")
    /\ (pc \in {"classified", "legend_built", "legend_added"}
           /\ (ref_bin = "na" \/ ach_bin = "na")) =>
          (class_label = "No Data" /\ fill_color = "#d9d9d9")
    /\ pc \in {"binned", "classified", "legend_built", "legend_added"} =>
          (ref_bin \in Bins \cup {"na"} /\ ach_bin \in Bins \cup {"na"})

C4_Witness ==
    /\ pc = "classified"
    /\ ref_bin = "na" /\ ach_bin = "high"
    /\ class_label = "No Data" /\ fill_color = "#d9d9d9"

\* The classification of the row whose reference value is x and achievement value is y.
C5_Case(x, y, rb, ab, label, color) ==
    (/\ row[METRICS(script)[reference_metric_ui]] = x
     /\ row[METRICS(script)[achievement_metric_ui]] = y) =>
        /\ ref_bin = rb /\ ach_bin = ab
        /\ class_label = label /\ fill_color = color

\* C5: on the market size table {low <5, med [5,25), high >=25} and the market share
\* table {low <0.10, med [0.10,0.20), high >=0.20}: (3, 0.05) is (low, low), Light Red;
\* (25, 0.25) is (high, high), Dark Green; (10, 0.15) is (med, med), Mustard;
\* (None, 0.15) is No Data.
C5_Scenario ==
    (/\ pc \in {"classified", "legend_built", "legend_added"}
     /\ reference_metric_ui = "AEPS Market Size"
     /\ achievement_metric_ui = "Market Share") =>
        /\ RefBinsDict(script)[reference_metric_ui] = BinTable(500, 500, 2500, 2500)
        /\ AchBinsDict(script)[achievement_metric_ui] = BinTable(10, 10, 20, 20)
        /\ C5_Case(Num(300), Num(5), "low", "low", "Light Red (Ref=Low, Ach=Low)", "#ffb3b3")
        /\ C5_Case(Num(2500), Num(25), "high", "high",
                   "Dark Green (Ref=High, Ach=High)", "#006400")
        /\ C5_Case(Num(1000), Num(15), "med", "med", "Mustard (Ref=Med, Ach=Med)", "#ffcc33")
        /\ C5_Case(None, Num(15), "na", "med", "No Data", "#d9d9d9")

C5_Witness ==
    /\ pc = "classified"
    /\ reference_metric_ui = "AEPS Market Size"
    /\ achievement_metric_ui = "Market Share"
    /\ row["AEPS_MARKET_SIZE"] = Num(2500)
    /\ row["SM_AEPS_MARKET_SHARE"] = Num(25)
    /\ class_label = "Dark Green (Ref=High, Ach=High)"

\* C6: the nine outcomes of the matrix are pairwise distinct as (label, color) pairs:
\* no other bin pair has the outcome of the bin pair of a classified district.
C6_Distinct ==
    /\ DOMAIN MATRIX_COLOR = Bins \X Bins
    /\ (pc = "classified" /\ ref_bin \in Bins /\ ach_bin \in Bins) =>
          \A q \in Bins \X Bins :
              MATRIX_COLOR[q] = MATRIX_COLOR[<<ref_bin, ach_bin>>] => q = <<ref_bin, ach_bin>>

C6_Witness ==
    /\ pc = "classified"
    /\ ref_bin = "low" /\ ach_bin = "high"
    /\ fill_color = "#b7ffb7"

\* The legend in its declared order.
ExpectedLegend ==
    << <<"Light Red (Ref=Low, Ach=Low)", "#ffb3b3">>,
       <<"Red (Ref=Med, Ach=Low)", "#ff3333">>,
       <<"Dark Red (Ref=High, Ach=Low)", "#8b0000">>,
       <<"Yellow (Ref=Low, Ach=Med)", "#ffff66">>,
       <<"Mustard (Ref=Med, Ach=Med)", "#ffcc33">>,
       <<"Orange (Ref=High, Ach=Med)", "#ff7f00">>,
       <<"Light Green (Ref=Low, Ach=High)", "#b7ffb7">>,
       <<"Green (Ref=Med, Ach=High)", "#33cc33">>,
       <<"Dark Green (Ref=High, Ach=High)", "#006400">>,
       <<"No Data", "#d9d9d9">> >>

\* C7: whatever the metric pair and the classified data, the legend handed to
\* add_legend has exactly 10 entries: the nine classes in the declared order, then
\* "No Data", each once.
C7_Legend ==
    /\ pc \in {"legend_built", "legend_added"} =>
          (Len(ordered_legend_items) = 10 /\ ordered_legend_items = ExpectedLegend)
    /\ pc = "legend_added" =>
          /\ Len(legend_args.ordered_legend_items) = 10
          /\ legend_args.ordered_legend_items = ExpectedLegend
          /\ legend_args.reference_metric_ui = reference_metric_ui
          /\ legend_args.achievement_metric_ui = achievement_metric_ui

C7_Witness ==
    /\ pc = "legend_added"
    /\ script = "app_v1"
    /\ reference_metric_ui = "Field Presence"
    /\ achievement_metric_ui = "Partner Presence"
    /\ class_label = "No Data"
    /\ Len(legend_args.ordered_legend_items) = 10

\* The capitalised bin names.
Capitalised(b) == IF b = "low" THEN "Low" ELSE IF b = "med" THEN "Med" ELSE "High"

\* C8: for a non-missing bin pair (r, a) the class label is
\* "<name> (Ref=<R>, Ach=<A>)" with the matrix name of (r, a) and r, a capitalised,
\* and the legend holds an entry with the same label and the same color.
C8_LabelInLegend ==
    /\ (pc \in {"classified", "legend_built", "legend_added"}
           /\ ref_bin \in Bins /\ ach_bin \in Bins) =>
          /\ class_label = MATRIX_COLOR[<<ref_bin, ach_bin>>][1] \o " (Ref="
                               \o Capitalised(ref_bin) \o ", Ach="
                               \o Capitalised(ach_bin) \o ")"
          /\ fill_color = MATRIX_COLOR[<<ref_bin, ach_bin>>][2]
    /\ pc \in {"legend_built", "legend_added"} =>
          \E i \in 1..Len(ordered_legend_items) :
              ordered_legend_items[i] = <<class_label, fill_color>>
    /\ pc = "legend_added" =>
          \E i \in 1..Len(legend_args.ordered_legend_items) :
              legend_args.ordered_legend_items[i] = <<class_label, fill_color>>

C8_Witness ==
    /\ pc = "legend_added"
    /\ ref_bin = "med" /\ ach_bin = "low"
    /\ class_label = "Red (Ref=Med, Ach=Low)"
    /\ legend_args.ordered_legend_items[2] = <<class_label, fill_color>>

\* C9: the matrix is not symmetric: for different bins a, b the outcomes of (a, b)
\* and (b, a) differ in label and in color, so a district whose two bins differ gets
\* another class when the two metrics exchange their roles.
C9_NotSymmetric ==
    /\ \A a \in Bins, b \in Bins :
          a # b => /\ MATRIX_COLOR[<<a, b>>][1] # MATRIX_COLOR[<<b, a>>][1]
                   /\ MATRIX_COLOR[<<a, b>>][2] # MATRIX_COLOR[<<b, a>>][2]
    /\ (/\ pc = "classified" /\ script = "app_v1"
        /\ ref_bin \in Bins /\ ach_bin \in Bins /\ ref_bin # ach_bin) =>
          LET rb == assign_bin(row[METRICS(script)[achievement_metric_ui]],
                               RefBinsDict(script)[achievement_metric_ui])
              ab == assign_bin(row[METRICS(script)[reference_metric_ui]],
                               AchBinsDict(script)[reference_metric_ui])
          IN  /\ rb = ach_bin /\ ab = ref_bin
              /\ class_and_color(rb, ab)[1] # class_label
              /\ class_and_color(rb, ab)[2] # fill_color

C9_Witness ==
    /\ pc = "classified" /\ script = "app_v1"
    /\ ref_bin = "med" /\ ach_bin = "low"
    /\ class_label = "Red (Ref=Med, Ach=Low)"
    /\ class_and_color(ach_bin, ref_bin)[1] = "Yellow (Ref=Low, Ach=Med)"

\* C10: every metric the selectors offer is bound, under its name, to a column, a bin
\* table and a range description, so generation never ends in a lookup error.
C10_CatalogBound ==
    /\ pc # "merged" =>
          /\ HasKey(METRICS(script), reference_metric_ui)
          /\ HasKey(METRICS(script), achievement_metric_ui)
          /\ HasKey(RefBinsDict(script), reference_metric_ui)
          /\ HasKey(AchBinsDict(script), achievement_metric_ui)
          /\ script = "app_v1" => /\ HasKey(BIN_DESC, reference_metric_ui)
                                  /\ HasKey(BIN_DESC, achievement_metric_ui)
    /\ pc # "raised"
    /\ error = ""

\* C11: whatever the bin table, a misconfigured one with a gap between its intervals
\* included, assign_bin raises no error; a numeric value that lies in none of the
\* three intervals gets "na", and the row is then classified 'No Data'.
InNoInterval(x, def) ==
    /\ ~Contains(x, Entry(def, "low"))
    /\ ~Contains(x, Entry(def, "med"))
    /\ ~GE(x, Entry(def, "high").lo)

C11_GapIsNoData ==
    (bin_def.dict = "any" /\ pc # "call") =>
        /\ pc # "raised" /\ error = ""
        /\ bin \in Bins \cup {"na"}
        /\ (~IsMissing(value) /\ InNoInterval(value, bin_def.def)) =>
              /\ bin = "na"
              /\ pc = "classified" =>
                    /\ class_label = "No Data"
                    /\ fill_color = "#d9d9d9"

C11_Witness ==
    /\ pc = "classified"
    /\ bin_def.def = BinTable(100, 100, 200, 300)
    /\ value = Num(200 + Delta)
    /\ bin = "na" /\ ref_bin = "na" /\ ach_bin = "high"
    /\ class_label = "No Data"

\* The secrets.toml files in the order get_bq_client tries them.
TriedFiles == [i \in 1..2 |-> toml_files[FileAt(Candidates(USERPROFILE)[i])]]

\* The call of get_bq_client is over: it returned the client or raised.
CallOver == pc \in {"client_ready", "raised"}

\* The order of the sources: the secret store, the secrets.toml of the profile
\* directory, the secrets.toml of the working directory, each consulted at most once.
SourceOrder ==
    /\ Len(consulted) <= 3
    /\ Len(consulted) >= 1 => consulted[1] = "st.secrets"
    /\ Len(consulted) >= 2 => consulted[2] = SecretsToml(USERPROFILE)
    /\ Len(consulted) >= 3 => consulted[3] = SecretsToml(Getcwd)

\* C20, as amended: get_bq_client resolves credentials in a fixed order.  A non-empty
\* entry of the secret store is used and no file is consulted; when the store has no
\* entry, an empty one or cannot be read, the secrets.toml files are tried, the profile
\* directory's first and the working directory's second, a file that is absent,
\* unreadable or without a non-empty entry being skipped; the first non-empty entry found
\* is used whether or not credentials can be built from it (an entry the constructors
\* reject raises their error and no later source is tried); 'No BigQuery credentials
\* found' is raised exactly when neither the store nor a file holds a non-empty entry.  A
\* call that Streamlit ends at the alert of the store has got no entry and built nothing.
C20_CredentialOrder ==
    /\ SourceOrder
    /\ Len(consulted) >= 2 => ~Truthy(st_secrets)
    /\ Len(consulted) >= 3 => ~Truthy(TriedFiles[1])
    /\ (CallOver /\ Truthy(st_secrets)) =>
          /\ Len(consulted) = 1
          /\ sa_info = [entry |-> st_secrets, source |-> "st.secrets"]
    /\ (CallOver /\ ~Truthy(st_secrets) /\ Truthy(TriedFiles[1])) =>
          /\ Len(consulted) = 2
          /\ sa_info = [entry |-> TriedFiles[1], source |-> "file:" \o consulted[2]]
    /\ (CallOver /\ ~Truthy(st_secrets) /\ ~Truthy(TriedFiles[1]) /\ Truthy(TriedFiles[2])) =>
          /\ Len(consulted) = 3
          /\ sa_info = [entry |-> TriedFiles[2], source |-> "file:" \o consulted[3]]
    /\ CallOver =>
          /\ error = "RuntimeError: No BigQuery credentials found"
                <=> (~Truthy(st_secrets) /\ ~Truthy(TriedFiles[1]) /\ ~Truthy(TriedFiles[2]))
          /\ Truthy(sa_info.entry) => error = ClientError(sa_info)
          /\ error = "" <=> pc = "client_ready"
    /\ pc = "client_ready" => client = "Client"
    /\ (pc = "stopped" /\ error = "") => consulted = <<>> /\ sa_info = NoInfo /\ client = ""

\* The store cannot be read, the profile file has no entry and the file of the working
\* directory holds the credentials: all three sources were consulted in order.
C20_Witness ==
    /\ pc = "client_ready"
    /\ USERPROFILE = ProfileDir
    /\ st_secrets = "unreadable"
    /\ toml_files = [f \in FileIds |-> IF f = "profile" THEN "no_entry" ELSE "mapping"]
    /\ consulted = <<"st.secrets", SecretsToml(ProfileDir), SecretsToml(Getcwd)>>
    /\ sa_info.source = "file:/app/.streamlit/secrets.toml"
    /\ shown.errors = <<SecretsAlert>>

\* A source holds the entry gcp_service_account, whatever its value.
Holds(kind) == kind \in EntryKinds

\* A source yields credentials: an entry a client can be built from.
Yields(kind, source) == ClientError([entry |-> kind, source |-> source]) = ""

\* C20, as stated: an entry the secret store holds is used and no file is consulted;
\* the files are tried, the profile directory's first, only when the store has no entry
\* or cannot be read, a file that is absent, unreadable or without the entry being
\* skipped; 'No BigQuery credentials found' is raised exactly when neither the store
\* nor a file yields credentials.
C20_EntryUsed ==
    /\ SourceOrder
    /\ Len(consulted) >= 2 => ~Holds(st_secrets)
    /\ Len(consulted) >= 3 => ~Holds(TriedFiles[1])
    /\ (CallOver /\ Holds(st_secrets)) =>
          /\ Len(consulted) = 1
          /\ sa_info = [entry |-> st_secrets, source |-> "st.secrets"]
    /\ CallOver =>
          (error = "RuntimeError: No BigQuery credentials found"
              <=> /\ ~Yields(st_secrets, "st.secrets")
                  /\ ~Yields(TriedFiles[1], "file:" \o SecretsToml(USERPROFILE))
                  /\ ~Yields(TriedFiles[2], "file:" \o SecretsToml(Getcwd)))

\* The rows of a table, as a set.
Rows(t) == {t[i] : i \in 1..Len(t)}

\* The polygons the state filter keeps.
KeptPolygons ==
    {p \in Rows(gdf) : (geography = "State" /\ state # "All States") => p.State = state}

\* C13: the geometry join keeps the polygons.  A district of df without polygon is not
\* on the map; a polygon without row in df is on the map, once, as 'No Data' in gray,
\* also under a state filter when the polygon lies in the selected state.
C13_GeometryJoin ==
    pc \in {"joined", "mapped"} =>
        /\ \A r \in Rows(merged) : r.District \in {p.District : p \in KeptPolygons}
        /\ \A d \in Rows(df) :
              (\A p \in Rows(gdf) : p.District # d.DISTRICT_NAME) =>
                  \A r \in Rows(merged) : r.DISTRICT_NAME # d.DISTRICT_NAME
        /\ \A p \in KeptPolygons :
              (\A d \in Rows(df) : d.DISTRICT_NAME # p.District) =>
                  /\ Cardinality({i \in 1..Len(merged) : merged[i].District = p.District}) = 1
                  /\ \A r \in Rows(merged) :
                        r.District = p.District =>
                            /\ r.DISTRICT_NAME = NoName
                            /\ pc = "mapped" => /\ r.ref_bin = "na" /\ r.ach_bin = "na"
                                                /\ r.class_label = "No Data"
                                                /\ r.fill_color = "#d9d9d9"

C13_Witness ==
    /\ pc = "mapped"
    /\ geography = "State" /\ state = "UTTAR PRADESH"
    /\ Len(gdf) = 2 /\ Len(df) = 2
    /\ df[2].DISTRICT_NAME = Canonical("NASIK")
    /\ Len(merged) = 1
    /\ merged[1].District = Canonical("AGRA")
    /\ merged[1].class_label = "No Data" /\ merged[1].fill_color = "#d9d9d9"

\* The warehouse yields a value for the district named n in column c: a row of the
\* query that feeds c names the district (up to case and whitespace) and holds no NULL.
Yielded(n, c) ==
    IF c \in QueryColumns("q_base")
    THEN \E b \in Rows(warehouse.base) :
            /\ Normalize(b.DISTRICT_NAME) = Normalize(n)
            /\ b.AEPS_MARKET_SIZE # None
            /\ c = "SM_AEPS_MARKET_SHARE" => b.AEPS_GTV # None
    ELSE \E q \in SecondaryQueries :
            /\ c \in QueryColumns(q)
            /\ \E r \in Rows(warehouse.sec[q]) :
                  Normalize(r.District) = Normalize(n) /\ r.cols[c] # None

\* The seven metric columns that come from the secondary queries.
MergedColumns == UNION {QueryColumns(q) : q \in SecondaryQueries}

\* The selected columns of a classified row with the bin computed from each.
SelectedBins(r) ==
    {<<METRICS(script)[reference_metric_ui], r.ref_bin>>,
     <<METRICS(script)[achievement_metric_ui], r.ach_bin>>}

\* C14 as stated: when the warehouse yields no value for a district and a selected
\* metric, the district's bin for that metric is missing and its class is 'No Data'; a
\* null is never turned into a number that lands in low, med or high.
C14_NullNeverBinned ==
    pc = "mapped" =>
        \A r \in Rows(merged) : \A cb \in SelectedBins(r) :
            ~Yielded(r.District, cb[1]) =>
                /\ cb[2] = "na"
                /\ r.class_label = "No Data"

\* C14, amended: when the warehouse yields no value for a district and a selected
\* metric, the bin is missing and the class 'No Data' for the two base-table metrics and
\* for a polygon matched by no base row; for the seven merged metrics of a district that
\* has a base row the missing value is 0 in df and is binned as 0, which is low.
C14_NullBinning ==
    pc = "mapped" =>
        \A r \in Rows(merged) : \A cb \in SelectedBins(r) :
            ~Yielded(r.District, cb[1]) =>
                IF script = "app_v1" /\ cb[1] \in MergedColumns /\ r.DISTRICT_NAME # NoName
                THEN /\ r.cols[cb[1]] = Num(0)
                     /\ cb[2] = "low"
                ELSE /\ cb[2] = "na"
                     /\ r.class_label = "No Data"

C14_Witness ==
    /\ pc = "mapped" /\ script = "app_v1"
    /\ reference_metric_ui = "AEPS Market Size" /\ achievement_metric_ui = "Field Presence"
    /\ warehouse.sec["q_field"] = <<>>
    /\ warehouse.base[1].AEPS_MARKET_SIZE = Num(1000)
    /\ Len(merged) = 2
    /\ merged[1].DISTRICT_NAME = Canonical("PUNE")
    /\ merged[1].cols["FIELD_PRESENCE"] = Num(0)
    /\ merged[1].ref_bin = "med" /\ merged[1].ach_bin = "low"
    /\ merged[1].class_label # "No Data"
    /\ merged[2].class_label = "No Data"

\* C15 as stated: when fetch_district_data returns, every row holds a defined value in
\* the column of every configured metric.
C15_EveryMetricDefined ==
    (pc = "fetched" /\ script = "app_v1") =>
        \A r \in Rows(df) : \A m \in DOMAIN METRICS(script) :
            /\ METRICS(script)[m] \in DOMAIN r.cols
            /\ ~IsMissing(r.cols[METRICS(script)[m]])

\* C15, amended: when fetch_district_data returns, every row holds a defined value in
\* the seven merged metric columns, 0 where the merges left none; the two base-table
\* columns are as the base query and the division gave them.
C15_MergedMetricsDefined ==
    (pc = "fetched" /\ script = "app_v1") =>
        \A i \in 1..Len(df) :
            /\ \A c \in MergedColumns :
                  /\ c \in DOMAIN df[i].cols
                  /\ IsFinite(df[i].cols[c])
                  /\ ~Yielded(df[i].DISTRICT_NAME, c) => df[i].cols[c] = Num(0)
            /\ \E b \in Rows(warehouse.base) :
                  /\ df[i].cols["AEPS_MARKET_SIZE"] = ToFrame(b.AEPS_MARKET_SIZE)
                  /\ df[i].cols["AEPS_GTV"] = ToFrame(b.AEPS_GTV)

C15_Witness ==
    /\ pc = "fetched" /\ script = "app_v1"
    /\ warehouse.base[1].AEPS_MARKET_SIZE = None
    /\ warehouse.sec["q_mvc"] = <<SecRow("q_mvc", Name("PUNE", FALSE, MaxPad), None)>>
    /\ Len(df) = 1
    /\ df[1].cols["MONTHLY_VISIT_COVERAGE"] = Num(0)
    /\ df[1].cols["TRANS_DENSITY_10K"] = Num(0)
    /\ df[1].cols["AEPS_MARKET_SIZE"] = NaN

\* C16: fetch_district_data returns exactly one row per row of the base table: the
\* merges neither drop nor duplicate a base row, also when a secondary result holds
\* several rows whose names are equal after normalisation.
C16_OneRowPerDistrict ==
    pc = "fetched" =>
        /\ Len(df) = Len(warehouse.base)
        /\ \A i \in 1..Len(df) :
              Normalize(df[i].DISTRICT_NAME) = Normalize(warehouse.base[i].DISTRICT_NAME)

\* C17: before every join on the district name both keys are normalised for case and
\* surrounding whitespace, so names that differ only in case or surrounding whitespace
\* are joined: a row of a secondary result with the row of df, and a polygon with the
\* row of df.
C17_JoinsNormalized ==
    /\ (pc = "fetched" /\ script = "app_v1") =>
          \A d \in Rows(df) : \A q \in SecondaryQueries : \A c \in QueryColumns(q) :
              (\E r \in Rows(warehouse.sec[q]) :
                    /\ Normalize(r.District) = Normalize(d.DISTRICT_NAME)
                    /\ r.cols[c] # None)
                  => \E r \in Rows(warehouse.sec[q]) :
                        /\ Normalize(r.District) = Normalize(d.DISTRICT_NAME)
                        /\ d.cols[c] = r.cols[c]
    /\ pc \in {"joined", "mapped"} =>
          \A p \in KeptPolygons : \A d \in Rows(df) :
              Normalize(p.District) = Normalize(d.DISTRICT_NAME) =>
                  \E r \in Rows(merged) :
                      r.District = p.District /\ r.DISTRICT_NAME = d.DISTRICT_NAME

(***************************************************************************)
(* The session                                                             *)
(***************************************************************************)
\* C18: when a step of a generation request raises, the exception is caught in main():
\* once the request is over (the script run has reached its end or Streamlit has ended
\* it), exactly one error message (that exception's) is on the page, the three session
\* keys are None and no map is displayed in the run; an exception is only ever pending,
\* handled or reported in a run started by Generate Map.
C18_FailureClearsSession ==
    /\ error # "" => generate_clicked
    /\ pc = "raised" => error # "" /\ shown.errors = <<>>
    /\ (error # "" /\ pc \in {"display", "idle", "stopped"}) =>
          /\ shown.errors = <<error>>
          /\ session_state.last_map_html = NoValue
          /\ session_state.last_map_file_name = NoValue
          /\ session_state.map_file_bytes = NoValue
          /\ shown.map = NoValue
          /\ pc = "idle" => shown.info

NoRepeat(seq) == \A i, j \in 1..Len(seq) : seq[i] = seq[j] => i = j

\* C19: in one request every warehouse query is issued at most once and in the order of
\* the plan; after a failure of the credentials or of a query no query is issued and no
\* credential source is consulted until the next script run, and the request ends in
\* the error outcome; a run that Generate Map did not start issues no query.
C19_NoRetry ==
    /\ [](/\ NoRepeat(queries)
          /\ Len(queries) <= Len(QueryPlan(script))
          /\ \A i \in 1..Len(queries) : queries[i] = QueryPlan(script)[i]
          /\ ~generate_clicked => queries = <<>> /\ consulted = <<>>
          /\ (error # "" /\ pc = "idle") => last_outcome = "failure")
    /\ [][(error # "" /\ runs' = runs) =>
             /\ queries' = queries /\ consulted' = consulted /\ error' = error
             /\ pc' \in {"clear_file_name", "clear_bytes", "report", "display", "idle",
                       "stopped"}]_vars

\* A request of app_v1.py whose first query failed: it ended with that one query issued.
C19_Witness ==
    /\ pc = "idle" /\ error = "GoogleAPIError" /\ last_outcome = "failure"
    /\ queries = <<"q_base">> /\ Len(QueryPlan(script)) > 1

RECURSIVE MergedThrough(_, _, _)
\* df of fetch_district_data after the first n queries of the plan, over the warehouse w.
MergedThrough(s, w, n) ==
    IF n = 1 THEN BaseFrame(s, w.base)
    ELSE Only({MergeQuery(d, QueryPlan(s)[n], w.sec[QueryPlan(s)[n]]) :
                  d \in {MergedThrough(s, w, n - 1)}})

\* What fetch_district_data returns over the warehouse w.
Fetched(s, w) ==
    IF Len(QueryPlan(s)) = 1 THEN BaseFrame(s, w.base)
    ELSE FillColumns(MergedThrough(s, w, Len(QueryPlan(s))), FILL_COLUMNS)

\* The classification computed from the arguments of a generation, the warehouse and
\* the shapefile alone.
FromInputs(s, w, polygons, inp) ==
    Only({Classification([i \in 1..Len(m) |->
                             ClassifyRow(m[i], s, inp.reference_metric_ui,
                                         inp.achievement_metric_ui)]) :
             m \in {StateFilter(GeoMerge(polygons, Fetched(s, w), s), inp.geography,
                                inp.state)}})

\* Every generation the step adds to the session has the classification computed from
\* its arguments.
Computed ==
    \A g \in generations' \ generations :
        g.rows = FromInputs(script, warehouse, shapefile, g.inputs)

Resolved ==
    IF Truthy(st_secrets) THEN [entry |-> st_secrets, source |-> "st.secrets"]
    ELSE IF Truthy(TriedFiles[1])
    THEN [entry |-> TriedFiles[1], source |-> "file:" \o SecretsToml(USERPROFILE)]
    ELSE IF Truthy(TriedFiles[2])
    THEN [entry |-> TriedFiles[2], source |-> "file:" \o SecretsToml(Getcwd)]
    ELSE NoInfo

\* Credentials the client can be built from: a table of fields, or its JSON in the store.
Usable == Truthy(Resolved.entry) /\ ClientError(Resolved) = ""

\* C21: with missing or malformed credentials no warehouse query is ever issued and no
\* client is built, and the failure reaches the user as a single error: no run has more
\* than one error on its page, and once a request that failed at the credentials is over
\* (the script run has reached its end or Streamlit has ended it) that failure is the
\* one error on the page and no map is displayed; in every environment a query is
\* issued only once the client has been built.
C21_FailFast ==
    /\ queries # <<>> => client = "Client" /\ Usable
    /\ ~Usable =>
          /\ queries = <<>> /\ client = "" /\ generations = {}
          /\ Len(shown.errors) <= 1
          /\ (consulted # <<>> /\ error # "" /\ pc \in {"idle", "stopped"}) =>
                /\ shown.errors = <<error>>
                /\ shown.map = NoValue

\* What an artifact is keyed by.
NameKey(sel) ==
    <<IF sel.geography = "State" /\ sel.state # "All States" THEN sel.state ELSE "National",
      sel.reference_metric_ui, sel.achievement_metric_ui, sel.month_year>>

\* The file name and the title of every selection of app_v1.py.
NameTable ==
    {[key |-> NameKey(sel),
      file_name |-> FileName(sel.reference_metric_ui, sel.achievement_metric_ui,
                             sel.geography, sel.state, sel.month_year),
      title |-> MapTitle(sel.reference_metric_ui, sel.achievement_metric_ui,
                         sel.geography, sel.state, sel.month_year)] :
        sel \in NameSelections("app_v1")}

\* C22: the file name and the title of a returned artifact are those of its key (scope,
\* reference metric, achievement metric, month); the scope is the selected state exactly
\* when the state filter was applied, and then every row of the map is of that state,
\* otherwise it is "National" and every polygon is on the map; a generation with another
\* key has another file name.
C22_NamedByKey ==
    pc = "returned" =>
        LET applied == geography = "State" /\ state # "All States"
            scope == IF applied THEN state ELSE "National"
            rows == result.folium_map.rows
        IN  /\ result.file_name =
                   "GEO_MAP_" \o scope \o "_" \o reference_metric_ui \o "_x_"
                       \o achievement_metric_ui \o "_" \o month_year \o ".html"
            /\ applied => \A i \in 1..Len(rows) : rows[i].STATE_x = state
            /\ ~applied => Len(rows) = Len(gdf)
            /\ \A e \in NameTable :
                   /\ e.key = NameKey(Inputs) =>
                         /\ e.file_name = result.file_name
                         /\ e.title = result.folium_map.text
                   /\ e.file_name = result.file_name => e.key = NameKey(Inputs)

\* A map of the state DELHI_NCR, whose name holds the separator of the file name.
C22_Witness ==
    /\ pc = "returned" /\ geography = "State" /\ state = "DELHI_NCR"
    /\ Len(result.folium_map.rows) = 1
    /\ result.file_name =
          "GEO_MAP_DELHI_NCR_Partner Presence_x_Market Share_2025-02-01.html"
    /\ result.folium_map.text =
          "Partner Presence (Reference) x Market Share (Achievement) - DELHI_NCR - Feb 2025"

(***************************************************************************)
(* The legend's range descriptions                                         *)
(***************************************************************************)
Above(t) == [lo |-> Num(t), loIn |-> FALSE, hi |-> PosInf, hiIn |-> FALSE]
AtLeast(t) == [lo |-> Num(t), loIn |-> TRUE, hi |-> PosInf, hiIn |-> FALSE]
Below(t) == [lo |-> NegInf, loIn |-> FALSE, hi |-> Num(t), hiIn |-> FALSE]
AtMost(t) == [lo |-> NegInf, loIn |-> FALSE, hi |-> Num(t), hiIn |-> TRUE]
Between(a, b) == [lo |-> Num(a), loIn |-> TRUE, hi |-> Num(b), hiIn |-> TRUE]

\* A range description read literally, its numbers in hundredths: "> t" and "< t" are
\* strict, ">= t" and "<= t" inclusive, "a - b" is from a to b, a bare number is itself.
ReadRange(text) ==
    CASE text = "> 25 Cr" -> Above(2500)   [] text = "5 - 25 Cr" -> Between(500, 2500)
      [] text = "< 5 Cr" -> Below(500)
      [] text = "> 20%" -> Above(2000)     [] text = "10 - 20%" -> Between(1000, 2000)
      [] text = "< 10%" -> Below(1000)
      [] text = "> 5" -> Above(500)        [] text = "2 - 5" -> Between(200, 500)
      [] text = "< 2" -> Below(200)
      [] text = "> 1" -> Above(100)        [] text = "0.5 - 1" -> Between(50, 100)
      [] text = "< 0.5" -> Below(50)
      [] text = "> 5 Cr" -> Above(500)     [] text = "1 - 5 Cr" -> Between(100, 500)
      [] text = "< 1 Cr" -> Below(100)
      [] text = "> 10%" -> Above(1000)     [] text = "4 - 10%" -> Between(400, 1000)
      [] text = "< 4%" -> Below(400)
      [] text = "> 10" -> Above(1000)      [] text = "2 - 10" -> Between(200, 1000)
      [] text = "<= 1" -> AtMost(100)
      [] text = ">= 2" -> AtLeast(200)     [] text = "1" -> Between(100, 100)
      [] text = "0" -> Between(0, 0)
      [] text = "> 25%" -> Above(2500)     [] text = "10 - 25%" -> Between(1000, 2500)

\* A percentage as the fraction of one it is: 20% is 20 / 100.
Percent(t) == IF t.kind = "num" THEN FDiv(t, Hundred) ELSE t

\* A range in the unit of the metric's values: the market share is a fraction of one
\* described in percent, every other metric is described in its own unit.
InUnit(m, r) ==
    IF m = "Market Share" THEN [r EXCEPT !.lo = Percent(r.lo), !.hi = Percent(r.hi)] ELSE r

InRange(x, r) ==
    /\ IF r.loIn THEN GE(x, r.lo) ELSE LT(r.lo, x)
    /\ IF r.hiIn THEN GE(r.hi, x) ELSE LT(x, r.hi)

\* The descriptions add_legend is given for the table bin_def.
DescOf(t) ==
    IF t.dict = "REF_BINS" THEN ref_bins_desc_app
    ELSE IF t.dict = "ACH_BINS" THEN ach_bins_desc_app
    ELSE BIN_DESC[t.key]

\* C23: the bin assign_bin gives a numeric value of a metric is the bin whose range
\* description, read literally, contains the value - also when the value is the lower
\* threshold of the high bin.
C23_DescriptionCoversBin ==
    (pc = "returned" /\ IsFinite(value) /\ bin_def.dict # "any") =>
        /\ bin \in {"low", "med", "high"}
        /\ InRange(value, InUnit(bin_def.key, ReadRange(DescOf(bin_def)[bin])))

(***************************************************************************)
(* The two copies of the script                                            *)
(***************************************************************************)
OtherScript(s) == IF s = "app" THEN "app_v1" ELSE "app"

\* C24: for the pair "AEPS Market Size" / "Market Share", what one copy of the script
\* computes for a row - the two bins, the class label, the fill color, the ordered
\* legend entries and the two range descriptions - is what the other copy's tables,
\* columns and descriptions give for the same row, missing values included.
C24_CopiesAgree ==
    (/\ pc \in {"binned", "classified", "legend_built", "legend_added"}
     /\ reference_metric_ui = "AEPS Market Size"
     /\ achievement_metric_ui = "Market Share") =>
        LET o == OtherScript(script)
            rb == assign_bin(row[METRICS(o)[reference_metric_ui]],
                             RefBinsDict(o)[reference_metric_ui])
            ab == assign_bin(row[METRICS(o)[achievement_metric_ui]],
                             AchBinsDict(o)[achievement_metric_ui])
        IN  /\ METRICS(o)[reference_metric_ui] = METRICS(script)[reference_metric_ui]
            /\ METRICS(o)[achievement_metric_ui] = METRICS(script)[achievement_metric_ui]
            /\ ref_bin = rb /\ ach_bin = ab
            /\ pc # "binned" => <<class_label, fill_color>> = class_and_color(rb, ab)
            /\ pc = "legend_added" =>
                  /\ legend_args.ordered_legend_items = build_legend
                  /\ legend_args.ref_bins_desc = RefBinsDesc(o, reference_metric_ui)
                  /\ legend_args.ach_bins_desc = AchBinsDesc(o, achievement_metric_ui)

\* app.py at the end of a row with a missing market size and a market share of 0.20.
C24_Witness ==
    /\ pc = "legend_added" /\ script = "app"
    /\ row["AEPS_MARKET_SIZE"] = NaN /\ row["SM_AEPS_MARKET_SHARE"] = Num(20)
    /\ ref_bin = "na" /\ ach_bin = "high" /\ class_label = "No Data"
    /\ legend_args.ach_bins_desc = BIN_DESC["Market Share"]

(***************************************************************************)
(* The month options                                                       *)
(***************************************************************************)
\* The number of a month, counted from January of the year 0.
MonthNo(d) == 12 * d.year + (d.month - 1)

\* C25: build_month_options returns, in ascending order, exactly one option for every
\* month from the start month up to the month before the current one ( none when the
\* start month is not before the current month ), labelled with the month's name and
\* year and valued 'YYYY-MM-01'; the month selectbox preselects the latest of them.
C25_MonthOptions ==
    pc \in {"month_selected", "raised"} =>
        LET first == MonthNo(month_args)
            last == MonthNo(today) - 1
            n == IF last >= first THEN (last - first) + 1 ELSE 0
        IN  /\ Len(month_map) = n
            /\ \A i \in 1..n :
                   LET k == first + (i - 1)
                   IN  /\ month_map[i].value = Year4(k \div 12) \o "-"
                                                   \o Month2((k % 12) + 1) \o "-01"
                       /\ month_map[i].label = MonthName((k % 12) + 1) \o " "
                                                   \o Year4(k \div 12)
            /\ n > 0 => /\ pc = "month_selected"
                        /\ month_year = month_map[n].value
            /\ n = 0 => pc = "raised"

\* In January 2025 the options run from April to December 2024 and December is selected.
C25_Witness ==
    /\ pc = "month_selected" /\ script = "app_v1"
    /\ today = Date(2025, 1) /\ month_args = Date(StartYear, StartMonth)
    /\ Len(month_map) = 9
    /\ month_map[1] = [label |-> "April 2024", value |-> "2024-04-01"]
    /\ month_map[9] = [label |-> "December 2024", value |-> "2024-12-01"]
    /\ month_year = "2024-12-01"

(***************************************************************************)
(* The page of a script run                                                *)
(***************************************************************************)
\* C26: at the end of every script run the download button of the run is enabled exactly
\* when the run displays a map, and an enabled button offers the bytes and the file
\* name of the map displayed.
C26_DownloadMatchesDisplay ==
    (pc = "idle" /\ runs > 0) =>
        /\ shown.download = "enabled" <=> IsSet(shown.map)
        /\ shown.download = "enabled" =>
              /\ shown.data = Encode(shown.map)
              /\ shown.data = session_state.map_file_bytes
              /\ shown.file_name = session_state.last_map_file_name.text

(***************************************************************************)
(* The session keys                                                        *)
(***************************************************************************)
\* The session holds the HTML and the file name of the generation g.
FromGeneration(g) ==
    /\ session_state.last_map_html.kind = "str"
    /\ session_state.last_map_html.text =
          MapTitle(g.inputs.reference_metric_ui, g.inputs.achievement_metric_ui,
                   g.inputs.geography, g.inputs.state, g.inputs.month_year)
    /\ Classification(session_state.last_map_html.rows) = g.rows
    /\ session_state.last_map_file_name =
          Str(FileName(g.inputs.reference_metric_ui, g.inputs.achievement_metric_ui,
                       g.inputs.geography, g.inputs.state, g.inputs.month_year))

\* st.session_state.get(k): None for a key _init_session_state has not created yet.
Held(k) == IF k \in DOMAIN session_state THEN session_state[k] ELSE NoValue

\* C27: whenever a script run of a session is over (it has reached its end or Streamlit
\* has ended it), the three session keys are all None or all set, and when set
\* map_file_bytes is the encoding of last_map_html, and the HTML and the file name are
\* those of one generation of the session.
C27_KeysCoherent ==
    pc \in {"idle", "stopped"} =>
        \/ /\ Held("last_map_html") = NoValue
           /\ Held("last_map_file_name") = NoValue
           /\ Held("map_file_bytes") = NoValue
        \/ /\ IsSet(Held("last_map_html"))
           /\ IsSet(Held("last_map_file_name"))
           /\ IsSet(Held("map_file_bytes"))
           /\ session_state.map_file_bytes = Encode(session_state.last_map_html)
           /\ \E g \in generations : FromGeneration(g)

\* The generation of the session that returned its map last.
LastGeneration == CHOOSE g \in generations : \A h \in generations : h.run <= g.run

\* The page displays the map of the generation g.
Displays(g) ==
    /\ shown.map.kind = "str"
    /\ shown.map.text =
          MapTitle(g.inputs.reference_metric_ui, g.inputs.achievement_metric_ui,
                   g.inputs.geography, g.inputs.state, g.inputs.month_year)
    /\ Classification(shown.map.rows) = g.rows

\* Every key present before the step is present after it, with the value it had.
KeysKept ==
    \A k \in DOMAIN session_state :
        k \in DOMAIN session_state' /\ session_state'[k] = session_state[k]

\* A step of _init_session_state keeps the keys that are present; a key it adds is None.
InitKeepsKeys ==
    pc \in {InitAt(i) : i \in 1..Len(DefaultKeys)} =>
        /\ KeysKept
        /\ \A k \in DOMAIN session_state' \ DOMAIN session_state :
               session_state'[k] = NoValue

\* C28: a script run that Generate Map did not start leaves the session keys as they
\* were, issues no query and consults no credential source, and when it is over (it
\* has reached its end or Streamlit has ended it) and the session has had a successful
\* generation, it has displayed the map of the last one, whatever the sidebar selects now;
\* _init_session_state changes no key that is present, and the keys it adds are None.
C28_RerunKeepsSession ==
    /\ [](~generate_clicked =>
            /\ queries = <<>> /\ consulted = <<>> /\ error = ""
            /\ (pc \in {"idle", "stopped"} /\ runs > 0 /\ generations # {}) =>
                  Displays(LastGeneration))
    /\ [][~generate_clicked' => KeysKept]_vars
    /\ [][InitKeepsKeys]_vars
====
